---- MODULE Spec2Model ----
(***************************************************************************)
(* Facebook Marketplace car scraper: the listing collector                 *)
(* (scrape_facebook_marketplace_safe / _rich), the enhanced text parser,   *)
(* the valuation estimator and the deal scorer of facebook_car_scraper.py. *)
(*                                                                         *)
(* A Python str is a sequence of one-character strings, so that the        *)
(* conversions of the code (split, lower, title, isdigit, int, str, the    *)
(* regular expressions) are computed and not assumed.                      *)
(***************************************************************************)
EXTENDS Integers, Sequences, FiniteSets, TLC

(***************************************************************************)
(* Python str primitives                                                   *)
(***************************************************************************)
Digits == <<"0", "1", "2", "3", "4", "5", "6", "7", "8", "9">>

Lowers ==
  <<"a", "b", "c", "d", "e", "f", "g", "h", "i", "j", "k", "l", "m",
    "n", "o", "p", "q", "r", "s", "t", "u", "v", "w", "x", "y", "z">>

Uppers ==
  <<"A", "B", "C", "D", "E", "F", "G", "H", "I", "J", "K", "L", "M",
    "N", "O", "P", "Q", "R", "S", "T", "U", "V", "W", "X", "Y", "Z">>

IsDigit(c) == \E i \in DOMAIN Digits : Digits[i] = c

IsLower(c) == \E i \in DOMAIN Lowers : Lowers[i] = c

IsUpper(c) == \E i \in DOMAIN Uppers : Uppers[i] = c

IsAlpha(c) == IsLower(c) \/ IsUpper(c)

\* \s of the regular expressions and the separators of str.split()
IsSpace(c) == c \in {" ", "\n", "\t"}

\* \w of the regular expressions
IsWord(c) == IsAlpha(c) \/ IsDigit(c) \/ c = "_"

DigitVal(c) == (CHOOSE i \in DOMAIN Digits : Digits[i] = c) - 1

lower_char(c) ==
  IF IsUpper(c) THEN Lowers[CHOOSE i \in DOMAIN Uppers : Uppers[i] = c] ELSE c

upper_char(c) ==
  IF IsLower(c) THEN Uppers[CHOOSE i \in DOMAIN Lowers : Lowers[i] = c] ELSE c

\* str.lower()
str_lower(s) == [i \in 1..Len(s) |-> lower_char(s[i])]

\* str.title(): a letter that follows a non-letter is upper-cased, any other
\* letter is lower-cased
str_title(s) ==
  [i \in 1..Len(s) |->
     IF IsAlpha(s[i])
     THEN IF i = 1 \/ ~IsAlpha(s[i - 1]) THEN upper_char(s[i]) ELSE lower_char(s[i])
     ELSE s[i]]

\* str.isdigit()
str_isdigit(s) == Len(s) > 0 /\ \A i \in 1..Len(s) : IsDigit(s[i])

\* str.replace(ch, '')
str_remove(s, ch) == SelectSeq(s, LAMBDA c : c # ch)

\* str.startswith(ch) for a one-character prefix
str_startswith(s, ch) == Len(s) > 0 /\ s[1] = ch

\* x in s, for a character x
str_contains(s, ch) == \E i \in 1..Len(s) : s[i] = ch

\* int(s) for a string of decimal digits
RECURSIVE to_int(_)
to_int(s) ==
  IF Len(s) = 0 THEN 0
  ELSE 10 * to_int(SubSeq(s, 1, Len(s) - 1)) + DigitVal(s[Len(s)])

\* str(n) for n >= 0
RECURSIVE to_str(_)
to_str(n) ==
  IF n < 10 THEN <<Digits[n + 1]>>
  ELSE to_str(n \div 10) \o <<Digits[(n % 10) + 1]>>

\* x in list
in_list(x, list) == \E i \in DOMAIN list : list[i] = x

\* str.split(): the maximal runs of non-whitespace characters, in order
RECURSIVE split_from(_, _, _, _)
split_from(text, i, cur, out) ==
  IF i > Len(text)
  THEN IF cur = <<>> THEN out ELSE Append(out, cur)
  ELSE IF IsSpace(text[i])
       THEN split_from(text, i + 1, <<>>, IF cur = <<>> THEN out ELSE Append(out, cur))
       ELSE split_from(text, i + 1, Append(cur, text[i]), out)

str_split(text) == split_from(text, 1, <<>>, <<>>)

\* Python's None; an absent str and the empty str are both falsy in the code
None == <<>>

(***************************************************************************)
(* Regular-expression matching, pattern by pattern                         *)
(***************************************************************************)
\* last index of the maximal run of [0-9,] that starts at i
RECURSIVE num_run_end(_, _)
num_run_end(s, i) ==
  IF i + 1 <= Len(s) /\ (IsDigit(s[i + 1]) \/ s[i + 1] = ",")
  THEN num_run_end(s, i + 1) ELSE i

\* last index of the maximal run of [a-z] that starts at i
RECURSIVE lower_run_end(_, _)
lower_run_end(s, i) ==
  IF i + 1 <= Len(s) /\ IsLower(s[i + 1]) THEN lower_run_end(s, i + 1) ELSE i

\* \s*: first index >= i that holds no whitespace (Len(s) + 1 at the end)
RECURSIVE skip_ws(_, _)
skip_ws(s, i) ==
  IF i <= Len(s) /\ IsSpace(s[i]) THEN skip_ws(s, i + 1) ELSE i

\* the literal lit occurs in s at index i
has_lit(s, i, lit) ==
  /\ i + Len(lit) - 1 <= Len(s)
  /\ \A j \in 1..Len(lit) : s[i + j - 1] = lit[j]

\* \b after index i - 1: a word character ends at i - 1 and none starts at i
word_end(s, i) == i > Len(s) \/ ~IsWord(s[i])

\* re.search(r'\$([0-9,]+)', token): group 1, or None
price_search(token) ==
  LET hits == {i \in 1..(Len(token) - 1) :
                 token[i] = "$" /\ (IsDigit(token[i + 1]) \/ token[i + 1] = ",")}
  IN IF hits = {} THEN [found |-> FALSE, group |-> None]
     ELSE LET i == CHOOSE h \in hits : \A g \in hits : h <= g
          IN [found |-> TRUE, group |-> SubSeq(token, i + 1, num_run_end(token, i + 1))]

\* One mileage pattern tried at index i: the last index of the match, 0 if
\* the pattern does not match there.  (\d+[,\d]*) is the whole run of
\* [0-9,] at i, because what follows it in each pattern is neither a digit
\* nor a comma.
mileage_match_at(s, i, pattern) ==
  IF ~IsDigit(s[i]) THEN 0
  ELSE LET e == num_run_end(s, i)
           p == skip_ws(s, e + 1)
       IN CASE pattern = 1 ->       \* (\d+[,\d]*)\s*k\s*miles?
                 IF has_lit(s, p, <<"k">>)
                 THEN LET q == skip_ws(s, p + 1)
                      IN IF has_lit(s, q, <<"m", "i", "l", "e">>)
                         THEN IF has_lit(s, q + 4, <<"s">>) THEN q + 4 ELSE q + 3
                         ELSE 0
                 ELSE 0
            [] pattern = 2 ->       \* (\d+[,\d]*)\s*miles?
                 IF has_lit(s, p, <<"m", "i", "l", "e">>)
                 THEN IF has_lit(s, p + 4, <<"s">>) THEN p + 4 ELSE p + 3
                 ELSE 0
            [] pattern = 3 ->       \* (\d+[,\d]*)\s*k\b
                 IF has_lit(s, p, <<"k">>) /\ word_end(s, p + 1) THEN p ELSE 0
            [] OTHER ->             \* (\d+[,\d]*)\s*mi\b
                 IF has_lit(s, p, <<"m", "i">>) /\ word_end(s, p + 2) THEN p + 1 ELSE 0

\* re.search(pattern, text_lower): the leftmost match, as groups 0 and 1
mileage_search(s, pattern) ==
  LET hits == {i \in 1..Len(s) : mileage_match_at(s, i, pattern) # 0}
  IN IF hits = {} THEN [found |-> FALSE, group0 |-> None, group1 |-> None]
     ELSE LET i == CHOOSE h \in hits : \A g \in hits : h <= g
          IN [found |-> TRUE,
              group0 |-> SubSeq(s, i, mileage_match_at(s, i, pattern)),
              group1 |-> SubSeq(s, i, num_run_end(s, i))]

\* One location pattern tried at index i: the last index of the match, 0 if
\* none.
location_match_at(s, i, pattern) ==
  IF ~IsUpper(s[i]) \/ i + 1 > Len(s) \/ ~IsLower(s[i + 1]) THEN 0
  ELSE LET e == lower_run_end(s, i + 1)
       IN IF pattern = 1         \* ([A-Z][a-z]+,\s*[A-Z]{2})
          THEN IF has_lit(s, e + 1, <<",">>)
               THEN LET p == skip_ws(s, e + 2)
                    IN IF p + 1 <= Len(s) /\ IsUpper(s[p]) /\ IsUpper(s[p + 1])
                       THEN p + 1 ELSE 0
               ELSE 0
          ELSE                   \* ([A-Z][a-z]+\s+[A-Z][a-z]+,\s*[A-Z]{2})
               LET w == skip_ws(s, e + 1)
               IN IF w > e + 1 /\ w + 1 <= Len(s) /\ IsUpper(s[w]) /\ IsLower(s[w + 1])
                  THEN LET f == lower_run_end(s, w + 1)
                       IN IF has_lit(s, f + 1, <<",">>)
                          THEN LET p == skip_ws(s, f + 2)
                               IN IF p + 1 <= Len(s) /\ IsUpper(s[p]) /\ IsUpper(s[p + 1])
                                  THEN p + 1 ELSE 0
                          ELSE 0
                  ELSE 0

location_search(s, pattern) ==
  LET hits == {i \in 1..Len(s) : location_match_at(s, i, pattern) # 0}
  IN IF hits = {} THEN [found |-> FALSE, group1 |-> None]
     ELSE LET i == CHOOSE h \in hits : \A g \in hits : h <= g
          IN [found |-> TRUE, group1 |-> SubSeq(s, i, location_match_at(s, i, pattern))]

(***************************************************************************)
(* parse_car_text_enhanced                                                 *)
(***************************************************************************)
car_brands ==
  << <<"t", "o", "y", "o", "t", "a">>, <<"h", "o", "n", "d", "a">>, <<"f", "o", "r", "d">>,
     <<"c", "h", "e", "v", "r", "o", "l", "e", "t">>, <<"c", "h", "e", "v", "y">>, <<"n", "i", "s", "s", "a", "n">>,
     <<"h", "y", "u", "n", "d", "a", "i">>, <<"k", "i", "a">>, <<"m", "a", "z", "d", "a">>,
     <<"s", "u", "b", "a", "r", "u">>, <<"v", "o", "l", "k", "s", "w", "a", "g", "e", "n">>, <<"v", "w">>,
     <<"b", "m", "w">>, <<"m", "e", "r", "c", "e", "d", "e", "s">>, <<"a", "u", "d", "i">>,
     <<"l", "e", "x", "u", "s">>, <<"a", "c", "u", "r", "a">>, <<"i", "n", "f", "i", "n", "i", "t", "i">>,
     <<"v", "o", "l", "v", "o">>, <<"j", "a", "g", "u", "a", "r">>, <<"p", "o", "r", "s", "c", "h", "e">>,
     <<"f", "e", "r", "r", "a", "r", "i">>, <<"l", "a", "m", "b", "o", "r", "g", "h", "i", "n", "i">>, <<"m", "a", "s", "e", "r", "a", "t", "i">>,
     <<"b", "e", "n", "t", "l", "e", "y">>, <<"r", "o", "l", "l", "s", "-", "r", "o", "y", "c", "e">>, <<"t", "e", "s", "l", "a">>,
     <<"l", "u", "c", "i", "d">>, <<"r", "i", "v", "i", "a", "n">>, <<"c", "a", "d", "i", "l", "l", "a", "c">>,
     <<"l", "i", "n", "c", "o", "l", "n">>, <<"b", "u", "i", "c", "k">>, <<"g", "m", "c">>,
     <<"r", "a", "m">>, <<"d", "o", "d", "g", "e">>, <<"c", "h", "r", "y", "s", "l", "e", "r">>,
     <<"j", "e", "e", "p">>, <<"m", "i", "t", "s", "u", "b", "i", "s", "h", "i">>, <<"g", "e", "n", "e", "s", "i", "s">>,
     <<"a", "l", "f", "a">>, <<"f", "i", "a", "t">>, <<"m", "i", "n", "i">>,
     <<"l", "a", "n", "d">>, <<"r", "o", "v", "e", "r">>, <<"r", "a", "n", "g", "e">>,
     <<"s", "a", "a", "b">>, <<"p", "o", "n", "t", "i", "a", "c">>, <<"o", "l", "d", "s", "m", "o", "b", "i", "l", "e">>,
     <<"s", "a", "t", "u", "r", "n">>, <<"h", "u", "m", "m", "e", "r">>, <<"s", "c", "i", "o", "n">>,
     <<"i", "s", "u", "z", "u">>, <<"s", "u", "z", "u", "k", "i">>, <<"d", "a", "i", "h", "a", "t", "s", "u">>,
     <<"s", "m", "a", "r", "t">> >>

Unknown == <<"U", "n", "k", "n", "o", "w", "n">>

\* lines 462-467: the first token that holds a $-number decides the price
RECURSIVE extract_price(_, _)
extract_price(tokens, i) ==
  IF i > Len(tokens) THEN None
  ELSE LET price_match == price_search(tokens[i])
       IN IF price_match.found THEN str_remove(price_match.group, ",")
          ELSE extract_price(tokens, i + 1)

\* lines 470-477: the first 4-digit token in 1990..this_year
RECURSIVE extract_year(_, _, _)
extract_year(tokens, i, this_year) ==
  IF i > Len(tokens) THEN None
  ELSE IF /\ str_isdigit(tokens[i]) /\ Len(tokens[i]) = 4
          /\ 1990 <= to_int(tokens[i]) /\ to_int(tokens[i]) <= this_year
       THEN tokens[i]
       ELSE extract_year(tokens, i + 1, this_year)

\* line 495
brand_key(token) == str_remove(str_remove(str_lower(token), "-"), "_")

\* lines 492-504: the first brand token decides make and model
RECURSIVE extract_make_model(_, _)
extract_make_model(tokens, i) ==
  IF i > Len(tokens) THEN [make |-> None, model |-> None]
  ELSE IF in_list(brand_key(tokens[i]), car_brands)
       THEN [make |-> str_title(tokens[i]),
             model |->
               IF i + 1 <= Len(tokens)
               THEN IF /\ i + 2 <= Len(tokens)
                       /\ ~str_startswith(tokens[i + 2], "$")
                       /\ ~str_isdigit(tokens[i + 2])
                    THEN str_title(tokens[i + 1]) \o <<" ">> \o str_title(tokens[i + 2])
                    ELSE str_title(tokens[i + 1])
               ELSE None]
       ELSE extract_make_model(tokens, i + 1)

\* line 522 without the test mileage_int < 1000
RECURSIVE extract_mileage_unguarded(_, _)
extract_mileage_unguarded(text_lower, pattern) ==
  IF pattern > 4 THEN None
  ELSE LET match == mileage_search(text_lower, pattern)
       IN IF match.found
          THEN LET mileage_int == to_int(str_remove(match.group1, ","))
               IN IF str_contains(match.group0, "k")
                  THEN to_str(mileage_int * 1000)
                  ELSE to_str(mileage_int)
          ELSE extract_mileage_unguarded(text_lower, pattern + 1)

\* lines 507-528: the first of the four patterns that matches decides the
\* mileage; int() of group 1 without its commas cannot fail
RECURSIVE extract_mileage(_, _)
extract_mileage(text_lower, pattern) ==
  IF pattern > 4 THEN None
  ELSE LET match == mileage_search(text_lower, pattern)
       IN IF match.found
          THEN LET mileage_int == to_int(str_remove(match.group1, ","))
               IN IF str_contains(match.group0, "k") /\ mileage_int < 1000
                  THEN to_str(mileage_int * 1000)
                  ELSE to_str(mileage_int)
          ELSE extract_mileage(text_lower, pattern + 1)

\* lines 531-541
extract_location(text) ==
  IF location_search(text, 1).found THEN location_search(text, 1).group1
  ELSE IF location_search(text, 2).found THEN location_search(text, 2).group1
  ELSE Unknown

\* line 544 without its test of the price
parse_car_text_enhanced_any_price(text, url, this_year) ==
  LET tokens == str_split(text)
      price == extract_price(tokens, 1)
      year == extract_year(tokens, 1, this_year)
      mm == extract_make_model(tokens, 1)
      mileage == extract_mileage(str_lower(text), 1)
      location == extract_location(text)
  IN IF year # None /\ mm.make # None
     THEN <<price, year, mm.make,
            IF mm.model # None THEN mm.model ELSE Unknown,
            IF mileage # None THEN mileage ELSE Unknown,
            location, url>>
     ELSE None

\* lines 457-547; this_year is current_year = datetime.now().year as read on line 471
parse_car_text_enhanced(text, url, this_year) ==
  LET tokens == str_split(text)
      price == extract_price(tokens, 1)
      year == extract_year(tokens, 1, this_year)
      mm == extract_make_model(tokens, 1)
      mileage == extract_mileage(str_lower(text), 1)
      location == extract_location(text)
  IN IF price # None /\ year # None /\ mm.make # None
     THEN <<price, year, mm.make,
            IF mm.model # None THEN mm.model ELSE Unknown,
            IF mileage # None THEN mileage ELSE Unknown,
            location, url>>
     ELSE None

(***************************************************************************)
(* create_realistic_sample_data: the fixed 8 rows; the source URL of a     *)
(* record is opaque and stays a plain string                               *)
(***************************************************************************)
create_realistic_sample_data ==
  << <<<<"1", "4", "5", "0", "0">>, <<"2", "0", "1", "5">>, <<"H", "o", "n", "d", "a">>, <<"C", "i", "v", "i", "c">>, <<"7", "8", "0", "0", "0">>, <<"A", "t", "l", "a", "n", "t", "a", ",", " ", "G", "A">>,
       "https://facebook.com/marketplace/item/sample1">>,
     <<<<"9", "2", "0", "0">>, <<"2", "0", "1", "2">>, <<"T", "o", "y", "o", "t", "a">>, <<"C", "o", "r", "o", "l", "l", "a">>, <<"1", "1", "2", "0", "0", "0">>, <<"D", "e", "c", "a", "t", "u", "r", ",", " ", "G", "A">>,
       "https://facebook.com/marketplace/item/sample2">>,
     <<<<"1", "9", "8", "0", "0">>, <<"2", "0", "1", "7">>, <<"N", "i", "s", "s", "a", "n">>, <<"A", "l", "t", "i", "m", "a">>, <<"6", "2", "0", "0", "0">>, <<"S", "a", "n", "d", "y", " ", "S", "p", "r", "i", "n", "g", "s", ",", " ", "G", "A">>,
       "https://facebook.com/marketplace/item/sample3">>,
     <<<<"1", "3", "2", "0", "0">>, <<"2", "0", "1", "4">>, <<"C", "h", "e", "v", "r", "o", "l", "e", "t">>, <<"M", "a", "l", "i", "b", "u">>, <<"8", "9", "0", "0", "0">>, <<"M", "a", "r", "i", "e", "t", "t", "a", ",", " ", "G", "A">>,
       "https://facebook.com/marketplace/item/sample4">>,
     <<<<"2", "1", "5", "0", "0">>, <<"2", "0", "1", "8">>, <<"F", "o", "r", "d">>, <<"F", "u", "s", "i", "o", "n">>, <<"4", "5", "0", "0", "0">>, <<"R", "o", "s", "w", "e", "l", "l", ",", " ", "G", "A">>,
       "https://facebook.com/marketplace/item/sample5">>,
     <<<<"1", "0", "8", "0", "0">>, <<"2", "0", "1", "3">>, <<"H", "y", "u", "n", "d", "a", "i">>, <<"E", "l", "a", "n", "t", "r", "a">>, <<"9", "5", "0", "0", "0">>, <<"A", "l", "p", "h", "a", "r", "e", "t", "t", "a", ",", " ", "G", "A">>,
       "https://facebook.com/marketplace/item/sample6">>,
     <<<<"1", "7", "2", "0", "0">>, <<"2", "0", "1", "6">>, <<"M", "a", "z", "d", "a">>, <<"M", "a", "z", "d", "a", "3">>, <<"6", "8", "0", "0", "0">>, <<"D", "u", "n", "w", "o", "o", "d", "y", ",", " ", "G", "A">>,
       "https://facebook.com/marketplace/item/sample7">>,
     <<<<"1", "2", "9", "0", "0">>, <<"2", "0", "1", "4">>, <<"K", "i", "a">>, <<"O", "p", "t", "i", "m", "a">>, <<"8", "2", "0", "0", "0">>, <<"B", "r", "o", "o", "k", "h", "a", "v", "e", "n", ",", " ", "G", "A">>,
       "https://facebook.com/marketplace/item/sample8">> >>

(***************************************************************************)
(* Number conversions of the estimator and the scorer.  Numeric strings    *)
(* are [-]digits[.digits]; any other string makes int()/float() raise.     *)
(***************************************************************************)
\* int(s) succeeds
int_ok(s) ==
  \/ str_isdigit(s)
  \/ Len(s) > 1 /\ s[1] = "-" /\ str_isdigit(Tail(s))

\* int(s) for a string int() accepts
int_val(s) == IF s[1] = "-" THEN 0 - to_int(Tail(s)) ELSE to_int(s)

dot_index(s) == IF str_contains(s, ".") THEN CHOOSE i \in 1..Len(s) : s[i] = "." ELSE 0

\* float(s) succeeds
float_ok(s) ==
  \/ int_ok(s)
  \/ LET u == IF Len(s) > 0 /\ s[1] = "-" THEN Tail(s) ELSE s
         d == dot_index(u)
     IN /\ d # 0
        /\ Len(u) > 1
        /\ \A i \in 1..Len(u) : i # d => IsDigit(u[i])

RECURSIVE pow10(_)
pow10(k) == IF k = 0 THEN 1 ELSE 10 * pow10(k - 1)

\* float(s) as the exact fraction num / den, den a power of ten
float_val(s) ==
  LET neg == s[1] = "-"
      u == IF neg THEN Tail(s) ELSE s
      d == dot_index(u)
      digits == str_remove(u, ".")
      mag == to_int(digits)
  IN [num |-> IF neg THEN 0 - mag ELSE mag,
      den |-> IF d = 0 THEN 1 ELSE pow10(Len(u) - d)]

\* a * b = q * d + r with 0 <= r < d, for a, b >= 0 and d > 0, computed by
\* halving a so that no intermediate value exceeds 3 * d
RECURSIVE mul_divmod(_, _, _)
mul_divmod(a, b, d) ==
  IF a = 0 THEN [q |-> 0, r |-> 0]
  ELSE LET h == mul_divmod(a \div 2, b, d)
           t == 2 * h.r + (a % 2) * (b % d)
       IN [q |-> 2 * h.q + (a % 2) * (b \div d) + (t \div d), r |-> t % d]

\* the quotient rounded up in place of int()
ceil_muldiv(a, b, d) ==
  IF a >= 0
  THEN mul_divmod(a, b, d).q + (IF mul_divmod(a, b, d).r > 0 THEN 1 ELSE 0)
  ELSE 0 - mul_divmod(0 - a, b, d).q

\* int(a * b / d): the quotient truncated toward zero, for b >= 0 and d > 0
trunc_muldiv(a, b, d) ==
  IF a >= 0 THEN mul_divmod(a, b, d).q ELSE 0 - mul_divmod(0 - a, b, d).q

Max(a, b) == IF a >= b THEN a ELSE b

(***************************************************************************)
(* get_market_pricing_estimate, in exact arithmetic: the factors are held  *)
(* in hundredths and int(x) truncates toward zero                          *)
(***************************************************************************)
premium_brands ==
  << <<"b", "m", "w">>, <<"m", "e", "r", "c", "e", "d", "e", "s">>, <<"l", "e", "x", "u", "s">>, <<"a", "u", "d", "i">> >>

reliable_brands ==
  << <<"t", "o", "y", "o", "t", "a">>, <<"h", "o", "n", "d", "a">>, <<"m", "a", "z", "d", "a">> >>

\* lines 642-647, in hundredths
brand_factor(make) ==
  IF in_list(str_lower(make), premium_brands) THEN 108
  ELSE IF in_list(str_lower(make), reliable_brands) THEN 104
  ELSE 100

\* line 650, in hundredths
age_factor(age) == Max(75, 100 - age * 4)

\* lines 627-661; this_year is current_year = datetime.now().year as read on line 632
get_market_pricing_estimate(make, model, year, price, this_year) ==
  IF int_ok(price) /\ int_ok(year)
  THEN LET listing_price == int_val(price)
           age == this_year - int_val(year)
           \* estimated_value = listing_price * k / 10^6
           k == 112 * brand_factor(make) * age_factor(age)
       IN <<trunc_muldiv(listing_price, k * 85, 100000000),
            trunc_muldiv(listing_price, k * 98, 100000000),
            trunc_muldiv(listing_price, k * 112, 100000000)>>
  ELSE <<8000, 10000, 12000>>

(***************************************************************************)
(* calculate_deal_scores                                                   *)
(***************************************************************************)
\* <= in place of < on lines 689, 692 and 695
mileage_condition_inclusive(car) ==
  LET digits == IF Len(car) > 4 THEN str_remove(car[5], ",") ELSE None
      mileage == IF Len(car) > 4 /\ car[5] # Unknown /\ int_ok(digits)
                 THEN int_val(digits) ELSE 0
  IN IF mileage # 0
     THEN IF mileage <= 50000 THEN [condition |-> "Excellent", factor |-> 100]
          ELSE IF mileage <= 80000 THEN [condition |-> "Good", factor |-> 92]
          ELSE IF mileage <= 120000 THEN [condition |-> "Fair", factor |-> 85]
          ELSE [condition |-> "Poor", factor |-> 75]
     ELSE [condition |-> "Unknown", factor |-> 90]

\* lines 681-703: the condition label and its factor in hundredths
mileage_condition(car) ==
  LET digits == IF Len(car) > 4 THEN str_remove(car[5], ",") ELSE None
      mileage == IF Len(car) > 4 /\ car[5] # Unknown /\ int_ok(digits)
                 THEN int_val(digits) ELSE 0
  IN IF mileage # 0
     THEN IF mileage < 50000 THEN [condition |-> "Excellent", factor |-> 100]
          ELSE IF mileage < 80000 THEN [condition |-> "Good", factor |-> 92]
          ELSE IF mileage < 120000 THEN [condition |-> "Fair", factor |-> 85]
          ELSE [condition |-> "Poor", factor |-> 75]
     ELSE [condition |-> "Unknown", factor |-> 90]

\* the record passes lines 669-678 and 708 without an exception
scorable(car) ==
  /\ Len(car) >= 4
  /\ float_ok(car[1])
  /\ float_val(car[1]).num # 0

\* ratio = adjusted_market / price, held as the fraction 100 * ratio = n / d
\* with d > 0: avg_market = sum / 3, adjusted_market = avg_market * factor / 100
deal_ratio(market_prices, factor, price) ==
  LET sum == market_prices[1] + market_prices[2] + market_prices[3]
      sgn == IF price.num < 0 THEN 0 - 1 ELSE 1
  IN [n |-> sgn * sum * factor * price.den, d |-> 3 * sgn * price.num]

\* ratio > t / 100
ratio_above(ratio, t) == ratio.n > t * ratio.d

\* lines 711-718
deal_quality(ratio) ==
  IF ratio_above(ratio, 125) THEN "Excellent"
  ELSE IF ratio_above(ratio, 110) THEN "Good"
  ELSE IF ratio_above(ratio, 95) THEN "Fair"
  ELSE "Poor"

\* round(ratio, 3) in thousandths; a ratio that is halfway between two
\* thousandths goes to the even one (the inputs of the model avoid it)
round3(ratio) ==
  LET a == IF ratio.n < 0 THEN 0 - ratio.n ELSE ratio.n
      q == (a * 10) \div ratio.d
      r == (a * 10) % ratio.d
      m == IF 2 * r > ratio.d \/ (2 * r = ratio.d /\ q % 2 = 1) THEN q + 1 ELSE q
  IN IF ratio.n < 0 THEN 0 - m ELSE m

\* lines 672-722 for one record that raises no exception
score_car(car, this_year) ==
  LET price == float_val(car[1])
      int_price == IF price.num < 0 THEN 0 - ((0 - price.num) \div price.den)
                   ELSE price.num \div price.den
      year == IF str_isdigit(car[2]) THEN to_int(car[2]) ELSE 2010
      market_prices ==
        get_market_pricing_estimate(
          car[3], car[4], to_str(year),
          IF int_price < 0 THEN <<"-">> \o to_str(0 - int_price) ELSE to_str(int_price),
          this_year)
      cond == mileage_condition(car)
      ratio == deal_ratio(market_prices, cond.factor, price)
  IN <<round3(ratio), cond.condition, deal_quality(ratio)>> \o car \o <<market_prices>>

\* the five fields of the content signature
five_fields(car) == SubSeq(car, 1, 5)

\* a scorer that drops a record whose five fields it has scored before
RECURSIVE score_all_unique(_, _)
score_all_unique(listings, this_year) ==
  IF listings = <<>> THEN <<>>
  ELSE LET car == listings[Len(listings)]
           front == SubSeq(listings, 1, Len(listings) - 1)
           rest == score_all_unique(front, this_year)
       IN IF /\ scorable(car)
             /\ \A k \in DOMAIN front :
                  ~(Len(front[k]) >= 5 /\ Len(car) >= 5 /\ scorable(front[k])
                    /\ five_fields(front[k]) = five_fields(car))
          THEN rest \o <<score_car(car, this_year)>>
          ELSE rest

\* a scorer without the handler of lines 724-726: the first record that
\* raises ends the loop
RECURSIVE score_all_abort(_, _)
score_all_abort(listings, this_year) ==
  IF listings = <<>> THEN <<>>
  ELSE IF scorable(Head(listings))
       THEN <<score_car(Head(listings), this_year)>>
              \o score_all_abort(Tail(listings), this_year)
       ELSE <<>>

\* lines 665-726: one scored entry per record that raises no exception
RECURSIVE score_all(_, _)
score_all(listings, this_year) ==
  IF listings = <<>> THEN <<>>
  ELSE LET car == Head(listings)
           rest == score_all(Tail(listings), this_year)
       IN IF scorable(car) THEN <<score_car(car, this_year)>> \o rest ELSE rest

\* insertion of x before the entries whose ratio equals its own
RECURSIVE insert_desc_before(_, _)
insert_desc_before(sorted, x) ==
  IF sorted = <<>> THEN <<x>>
  ELSE IF Head(sorted)[1] > x[1]
       THEN <<Head(sorted)>> \o insert_desc_before(Tail(sorted), x)
       ELSE <<x>> \o sorted

\* insertion of x behind every entry whose ratio is >= its own
RECURSIVE insert_desc(_, _)
insert_desc(sorted, x) ==
  IF sorted = <<>> THEN <<x>>
  ELSE IF Head(sorted)[1] >= x[1] THEN <<Head(sorted)>> \o insert_desc(Tail(sorted), x)
  ELSE <<x>> \o sorted

\* line 729: list.sort(key=ratio, reverse=True), a stable sort
RECURSIVE sort_desc(_)
sort_desc(list) ==
  IF list = <<>> THEN <<>>
  ELSE insert_desc(sort_desc(SubSeq(list, 1, Len(list) - 1)), list[Len(list)])

\* lines 663-730
calculate_deal_scores(listings, this_year) ==
  sort_desc(score_all(listings, this_year))

(***************************************************************************)
(* The collector: scrape_facebook_marketplace_safe (lines 245-455) and     *)
(* scrape_facebook_marketplace_rich (lines 1171-1320).  The page, its      *)
(* links and their texts belong to the rendering collaborator: every call  *)
(* on it returns any value of its range or raises.                         *)
(***************************************************************************)
\* bounds of the model
MaxScroll == 5

MaxListings == 3

\* line 349: the number of consecutive stalls that stops the scrolling
StallLimit == 3

\* hrefs that pass the filter of line 335, relative and absolute
Refs ==
  {"/marketplace/item/1", "/marketplace/item/2",
   "https://www.facebook.com/marketplace/item/3"}

RelativeRefs == {"/marketplace/item/1", "/marketplace/item/2"}

\* display texts a link element can hold
\* '2015 Honda Civic $14,500 78k miles Atlanta, GA'
text_civic ==
  <<"2", "0", "1", "5", " ", "H", "o", "n", "d", "a", " ", "C", "i", "v",
    "i", "c", " ", "$", "1", "4", ",", "5", "0", "0", " ", "7", "8", "k",
    " ", "m", "i", "l", "e", "s", " ", "A", "t", "l", "a", "n", "t", "a",
    ",", " ", "G", "A">>

\* '$900 2012 kia_ Rio'
text_kia_rio ==
  <<"$", "9", "0", "0", " ", "2", "0", "1", "2", " ", "k", "i", "a", "_",
    " ", "R", "i", "o">>

\* '$900 2012 kia _Rio'
text_kia_rio_split ==
  <<"$", "9", "0", "0", " ", "2", "0", "1", "2", " ", "k", "i", "a", " ",
    "_", "R", "i", "o">>

\* ' Marketplace\n'
text_no_listing ==
  <<" ", "M", "a", "r", "k", "e", "t", "p", "l", "a", "c", "e", "\n">>

Texts == {text_civic, text_kia_rio, text_kia_rio_split, text_no_listing}

\* datetime.now().year
CurrentYears == {2026}

\* str.strip()
RECURSIVE str_strip(_)
str_strip(s) ==
  IF s = <<>> THEN s
  ELSE IF IsSpace(s[1]) THEN str_strip(Tail(s))
  ELSE IF IsSpace(s[Len(s)]) THEN str_strip(SubSeq(s, 1, Len(s) - 1))
  ELSE s

\* lines 421 / 1292
full_url(href) ==
  IF href \in RelativeRefs THEN "https://www.facebook.com" \o href ELSE href

\* lines 426 / 1297: the five fields joined by underscores
car_signature(car_data) ==
  car_data[1] \o <<"_">> \o car_data[2] \o <<"_">> \o car_data[3] \o <<"_">>
    \o car_data[4] \o <<"_">> \o car_data[5]

\* lines 420-423 / 1291-1294 for every text, href and year of the model,
\* computed once
car_data_of ==
  [text \in Texts, href \in Refs, year \in CurrentYears |->
     parse_car_text_enhanced(str_strip(text), full_url(href), year)]

\* the orders in which iterating a set can yield its elements
Orderings(S) ==
  {o \in [1..Cardinality(S) -> S] : \A i, j \in 1..Cardinality(S) : o[i] = o[j] => i = j}

Min(a, b) == IF a <= b THEN a ELSE b

\* the slice [:max_listings] forgotten
limit_processing_unlimited(listed, max) == listed

\* lines 380 / 1255: list(all_listings)[:max_listings] for max_listings >= 0
limit_processing(listed, max) == SubSeq(listed, 1, Min(max, Len(listed)))

VARIABLES
  variant,          \* "safe" or "rich": which of the two functions runs
  scroll_count,     \* argument: the iteration budget
  max_listings,     \* argument: the listing cap
  current_year,     \* datetime.now().year
  pc,               \* "Start", "Loaded", "Scrolling", "Extracting" or "Done"
  scroll_i,         \* growth iterations executed so far
  all_listings,     \* the accumulator (a set of hrefs)
  previous_count,
  no_new_count,
  order,            \* list(all_listings)[:max_listings], fixed when extraction begins
  processed_count,
  car_listings,
  seen_cars,
  result,           \* the return value
  outcome,          \* the return statement that produced it
  first_seen,       \* history: the hrefs in the order they entered the accumulator
  scroll_log,       \* history: what the last LogWindow growth iterations did
  parsed_log,       \* history: the parser's result for each processed href, in order
  page_text,        \* the text the loaded page shows to the login check (None
                    \* before the page is loaded and once the check is over)
  valuation_calls,  \* history: the calls of get_market_pricing_estimate
  link_text,        \* the text handed to parse_car_text_enhanced
  preferences,      \* the mapping read_preferences returned
  facebook_url,     \* what build_facebook_url(preferences) returned
  final_listings    \* the caller's calculate_deal_scores(car_listings)

vars ==
  <<variant, scroll_count, max_listings, current_year, pc, scroll_i, all_listings,
    previous_count, no_new_count, order, processed_count, car_listings, seen_cars,
    result, outcome, first_seen, scroll_log, parsed_log, final_listings,
    page_text, valuation_calls, link_text, preferences, facebook_url>>

\* lines 245-248; the callers pass max_listings = 500 (lines 1101, 1152) and
\* the user's "Scroll Down Length", any integer, as scroll_count
Init ==
  /\ variant \in {"safe", "rich"}
  /\ scroll_count \in (0 - 1)..MaxScroll
  /\ max_listings \in 1..MaxListings
  /\ current_year \in CurrentYears
  /\ pc = "Start"
  /\ scroll_i = 0
  /\ all_listings = {}
  /\ previous_count = 0
  /\ no_new_count = 0
  /\ order = <<>>
  /\ processed_count = 0
  /\ car_listings = <<>>
  /\ seen_cars = {}
  /\ result = <<>>
  /\ outcome = "running"
  /\ first_seen = <<>>
  /\ scroll_log = <<>>
  /\ parsed_log = <<>>
  /\ final_listings = <<>>
  /\ page_text = None
  /\ valuation_calls = {}
  /\ link_text = None
  /\ preferences = <<>>
  /\ facebook_url = None

\* the history of the scrolling loop keeps its last LogWindow entries
LogWindow == StallLimit + 1

logged(log, entry) ==
  IF Len(log) < LogWindow THEN Append(log, entry)
  ELSE Append(Tail(log), entry)

\* a return statement
Return(value, by) ==
  /\ pc' = "Done"
  /\ result' = value
  /\ outcome' = by

\* lines 366-380 / 1248-1255: what follows the scrolling loop
FinishScroll(listings) ==
  IF listings = {}
  THEN /\ Return(create_realistic_sample_data,
                 IF variant = "safe" THEN "no_links" ELSE "no_data")
       /\ order' = <<>>
  ELSE /\ \E listed \in Orderings(listings) :
            order' = limit_processing(listed, max_listings)
       /\ pc' = "Extracting"
       /\ UNCHANGED <<result, outcome>>

\* texts of the loaded page, as page.inner_text() returns them
text_log_in == <<"L", "o", "g", " ", "I", "n", " ", "t", "o", " ", "F", "a", "c", "e", "b", "o", "o", "k">>

text_sign_up == <<"C", "a", "r", "s", "\n", "S", "I", "G", "N", " ", "U", "P">>

text_cars == <<"C", "a", "r", "s", " ", "f", "o", "r", " ", "s", "a", "l", "e", ",", " ", "l", "o", "g", "i", "n", "s">>

PageTexts == {text_log_in, text_sign_up, text_cars}

\* lit in s
str_has(s, lit) == \E i \in 1..Len(s) : has_lit(s, i, lit)

\* lines 294 / 1202: "log in" in page_text.lower() or "sign up" in page_text.lower()
login_required(text) ==
  \/ str_has(str_lower(text), <<"l", "o", "g", " ", "i", "n">>)
  \/ str_has(str_lower(text), <<"s", "i", "g", "n", " ", "u", "p">>)

\* the collaborator failures before the page is loaded: PLAYWRIGHT_AVAILABLE
\* is False (line 250), safe_browser_page yields None (lines 222-227, 256),
\* page.goto returns nothing (265), a status other than 200 (272), or raises (277)
Failures ==
  {"unavailable", "launch_failed", "no_response", "bad_status", "navigation_failed"}

\* page.goto raises and no handler catches it
collaborator_failure_uncaught(failure) ==
  IF failure = "navigation_failed"
  THEN [value |-> None, by |-> "exception"]
  ELSE [value |-> create_realistic_sample_data, by |-> failure]

\* lines 250-252, 256-258, 265-267, 272-274, 277-283 / 1173-1195: each
\* failure ends in a return of the sample data
collaborator_failure(failure) ==
  [value |-> create_realistic_sample_data, by |-> failure]

\* lines 250-283 / 1173-1195: a collaborator failure before the page is loaded
PreflightFailure ==
  /\ pc = "Start"
  /\ \E failure \in Failures :
       Return(collaborator_failure(failure).value, collaborator_failure(failure).by)
  /\ UNCHANGED <<link_text, preferences, facebook_url, page_text, valuation_calls,
                 variant, scroll_count, max_listings, current_year, scroll_i,
                 all_listings, previous_count, no_new_count, order, processed_count,
                 car_listings, seen_cars, first_seen, scroll_log, parsed_log,
                 final_listings>>

\* lines 263-276 / 1185-1190: page.goto returned status 200; the page shows
\* one of PageTexts
PageLoaded ==
  /\ pc = "Start"
  /\ pc' = "Loaded"
  /\ page_text' \in PageTexts
  /\ UNCHANGED <<link_text, preferences, facebook_url, valuation_calls,
                 variant, scroll_count, max_listings, current_year, scroll_i,
                 all_listings, previous_count, no_new_count, order, processed_count,
                 car_listings, seen_cars, result, outcome, first_seen, scroll_log,
                 parsed_log, final_listings>>

\* lines 288-297 / 1199-1204: the page text asks for a login
LoginRequired ==
  /\ pc = "Loaded"
  /\ login_required(page_text)
  /\ page_text' = None
  /\ Return(create_realistic_sample_data, "login_required")
  /\ UNCHANGED <<link_text, preferences, facebook_url, valuation_calls,
                 variant, scroll_count, max_listings, current_year, scroll_i,
                 all_listings, previous_count, no_new_count, order, processed_count,
                 car_listings, seen_cars, first_seen, scroll_log, parsed_log,
                 final_listings>>

\* range(scroll_count + 1) in place of range(scroll_count)
budget_spent_late(done) == done > scroll_count

\* lines 312 / 1212: range(scroll_count) is exhausted after done iterations
budget_spent(done) == done >= scroll_count

\* lines 290-312 / 1201-1212: the page text asks for no login, or
\* page.inner_text() raised and the handler of lines 301-304 / 1205-1206
\* went on; the loop is entered, or skipped when range(scroll_count) is empty
BeginScroll ==
  /\ pc = "Loaded"
  /\ \E raised \in BOOLEAN : raised \/ ~login_required(page_text)
  /\ page_text' = None
  /\ IF budget_spent(0)
     THEN FinishScroll(all_listings)
     ELSE pc' = "Scrolling" /\ UNCHANGED <<result, outcome, order>>
  /\ UNCHANGED <<link_text, preferences, facebook_url, valuation_calls,
                 variant, scroll_count, max_listings, current_year, scroll_i,
                 all_listings, previous_count, no_new_count, processed_count,
                 car_listings, seen_cars, first_seen, scroll_log, parsed_log,
                 final_listings>>

\* the else branch of lines 352-353 forgotten
next_no_new_count_sticky(current_count) ==
  IF current_count = previous_count THEN no_new_count + 1 ELSE no_new_count

\* lines 347-353: the stall counter after an iteration that counted
\* current_count listings
next_no_new_count(current_count) ==
  IF current_count = previous_count THEN no_new_count + 1 ELSE 0

\* no_new_count > 3 in place of no_new_count >= 3
stall_break_late(current_count) ==
  current_count = previous_count /\ next_no_new_count(current_count) > StallLimit

\* lines 349-351: break on the third stall
stall_break(current_count) ==
  current_count = previous_count /\ next_no_new_count(current_count) >= StallLimit

\* current_count > max_listings in place of >=
cap_break_late(current_count) == current_count > max_listings

\* lines 358-360 / 1242-1243: break at the listing cap
cap_break(current_count) == current_count >= max_listings

\* lines 312-364 / 1212-1246: one iteration of the scrolling loop that
\* harvests current_listings
ScrollHarvest ==
  /\ pc = "Scrolling"
  /\ \E current_listings \in SUBSET Refs :
       LET updated == all_listings \cup current_listings
           current_count == Cardinality(updated)
           stalled == variant = "safe" /\ stall_break(current_count)
           leave == \/ stalled
                    \/ cap_break(current_count)
                    \/ budget_spent(scroll_i + 1)
       IN /\ all_listings' = updated
          /\ \E added \in Orderings(current_listings \ all_listings) :
               first_seen' = first_seen \o added
          /\ scroll_log' =
               logged(scroll_log,
                      IF Cardinality(updated) = Cardinality(all_listings)
                      THEN "stall" ELSE "grow")
          /\ IF variant = "safe"
             THEN /\ no_new_count' = next_no_new_count(current_count)
                  /\ previous_count' = IF stalled THEN previous_count ELSE current_count
             ELSE UNCHANGED <<no_new_count, previous_count>>
          /\ IF leave
             THEN FinishScroll(updated)
             ELSE UNCHANGED <<pc, result, outcome, order>>
  /\ scroll_i' = scroll_i + 1
  /\ UNCHANGED <<link_text, preferences, facebook_url, page_text, valuation_calls,
                 variant, scroll_count, max_listings, current_year, processed_count,
                 car_listings, seen_cars, parsed_log, final_listings>>

\* a handler that counts the iteration that raised as a stall
ScrollError_as_stall ==
  /\ pc = "Scrolling"
  /\ scroll_log' = logged(scroll_log, "error")
  /\ scroll_i' = scroll_i + 1
  /\ no_new_count' = no_new_count + 1
  /\ IF budget_spent(scroll_i + 1)
     THEN FinishScroll(all_listings)
     ELSE UNCHANGED <<pc, result, outcome, order>>
  /\ UNCHANGED <<link_text, preferences, facebook_url, page_text, valuation_calls,
                 variant, scroll_count, max_listings, current_year, all_listings,
                 previous_count, processed_count, car_listings,
                 seen_cars, first_seen, parsed_log, final_listings>>

\* lines 313-316 and 362-364 / 1213-1215 and 1245-1246: the growth step raises
ScrollError ==
  /\ pc = "Scrolling"
  /\ scroll_log' = logged(scroll_log, "error")
  /\ scroll_i' = scroll_i + 1
  /\ IF budget_spent(scroll_i + 1)
     THEN FinishScroll(all_listings)
     ELSE UNCHANGED <<pc, result, outcome, order>>
  /\ UNCHANGED <<link_text, preferences, facebook_url, page_text, valuation_calls,
                 variant, scroll_count, max_listings, current_year, all_listings,
                 previous_count, no_new_count, processed_count, car_listings,
                 seen_cars, first_seen, parsed_log, final_listings>>

\* lines 424-431 / 1295-1302: first seen wins
keep_unique(listings, seen, car_data) ==
  IF car_data # None /\ car_signature(car_data) \notin seen
  THEN [car_listings |-> Append(listings, car_data),
        seen_cars |-> seen \cup {car_signature(car_data)}]
  ELSE [car_listings |-> listings, seen_cars |-> seen]

\* lines 442-448 / 1312-1316: what follows the extraction loop
FinishExtract(listings) ==
  IF listings # <<>>
  THEN Return(listings, "extracted")
  ELSE Return(create_realistic_sample_data, "no_data")

\* the step of the extraction loop for order[processed_count + 1] with the
\* parser's result car_data (None when no text reached the parser)
ExtractStep(car_data) ==
  LET kept == keep_unique(car_listings, seen_cars, car_data)
  IN /\ processed_count' = processed_count + 1
     /\ car_listings' = kept.car_listings
     /\ seen_cars' = kept.seen_cars
     /\ parsed_log' = Append(parsed_log, car_data)
     /\ IF processed_count + 1 >= Len(order)
        THEN FinishExtract(kept.car_listings)
        ELSE UNCHANGED <<pc, result, outcome>>
     /\ UNCHANGED <<link_text, preferences, facebook_url, page_text, valuation_calls,
                 variant, scroll_count, max_listings, current_year, scroll_i,
                    all_listings, previous_count, no_new_count, order, first_seen,
                    scroll_log, final_listings>>

\* lines 380-435 / 1255-1302: the element of the href is found and its text parsed
ExtractText ==
  /\ pc = "Extracting"
  /\ \E text \in Texts :
       ExtractStep(car_data_of[text, order[processed_count + 1], current_year])

\* lines 397-419 / 1270-1290: no element matches the href
ExtractNoElement ==
  /\ pc = "Extracting"
  /\ ExtractStep(None)

\* lines 414-417, 437-440 / 1287-1288, 1309-1310: the lookup or inner_text raises
ExtractError ==
  /\ pc = "Extracting"
  /\ ExtractStep(None)

Next ==
  \/ PreflightFailure
  \/ PageLoaded
  \/ LoginRequired
  \/ BeginScroll
  \/ ScrollHarvest
  \/ ScrollError
  \/ ExtractText
  \/ ExtractNoElement
  \/ ExtractError

Spec == Init /\ [][Next]_vars

\* the loops and the returns are straight-line code: a run that has not
\* returned takes its next step
FairSpec == Spec /\ WF_vars(Next)

(***************************************************************************)
(* The scorer on its own: calculate_deal_scores applied to any list of     *)
(* at most MaxBatch records of ScoreRecords, as run_search_fallback and    *)
(* run_search_with_progress apply it to the collector's return value       *)
(* (lines 1157-1166 / 1120-1137).                                          *)
(***************************************************************************)
MaxBatch == 3

\* the record of text_civic as the collector returns it for a reference
civic_at(href) == car_data_of[text_civic, href, 2026]

with_price(car, price) == [car EXCEPT ![1] = price]

with_mileage(car, mileage) == [car EXCEPT ![5] = mileage]

\* mileages on both sides of each threshold of lines 689-695, and 0
ThresholdMileages ==
  {<<"4", "9", "9", "9", "9">>,
   <<"5", "0", "0", "0", "0">>,
   <<"7", "9", "9", "9", "9">>,
   <<"8", "0", "0", "0", "0">>,
   <<"1", "1", "9", "9", "9", "9">>,
   <<"1", "2", "0", "0", "0", "0">>}

\* records the collector can return: the record of text_civic from two
\* distinct references, the same record with other prices and other
\* mileages; then a record whose price is no number and a record with fewer
\* than four fields
ScoreRecords ==
  {civic_at("/marketplace/item/1"),
   civic_at("/marketplace/item/2"),
   with_price(civic_at("/marketplace/item/1"), <<"0">>),
   with_price(civic_at("/marketplace/item/1"), <<"1">>),
   with_mileage(civic_at("/marketplace/item/1"), <<"0">>),
   <<<<"N", "/", "A">>, <<"2", "0", "1", "5">>, <<"H", "o", "n", "d", "a">>, <<"C", "i", "v", "i", "c">>,
     Unknown, Unknown, "https://www.facebook.com/marketplace/item/3">>,
   <<<<"9", "5", "0", "0">>, <<"2", "0", "1", "5">>, <<"H", "o", "n", "d", "a">>>>}
  \cup {with_mileage(civic_at("/marketplace/item/1"), m) : m \in ThresholdMileages}

\* every list of at most MaxBatch of these records, and the sample data
ScoreInputs ==
  UNION {[1..n -> ScoreRecords] : n \in 0..MaxBatch} \cup {create_realistic_sample_data}

ScoreInit ==
  /\ variant = "safe"
  /\ scroll_count = 0
  /\ max_listings = 1
  /\ current_year \in CurrentYears
  /\ pc = "Done"
  /\ scroll_i = 0
  /\ all_listings = {}
  /\ previous_count = 0
  /\ no_new_count = 0
  /\ order = <<>>
  /\ processed_count = 0
  /\ car_listings = <<>>
  /\ seen_cars = {}
  /\ result \in ScoreInputs
  /\ outcome = "given"
  /\ first_seen = <<>>
  /\ scroll_log = <<>>
  /\ parsed_log = <<>>
  /\ final_listings = <<>>
  /\ page_text = None
  /\ valuation_calls = {}
  /\ link_text = None
  /\ preferences = <<>>
  /\ facebook_url = None

\* lines 1166 / 1137: final_listings = calculate_deal_scores(car_listings)
AnalyzeDeals ==
  /\ pc = "Done"
  /\ pc' = "Scored"
  /\ final_listings' = calculate_deal_scores(result, current_year)
  /\ UNCHANGED <<link_text, preferences, facebook_url, page_text, valuation_calls,
                 variant, scroll_count, max_listings, current_year, scroll_i,
                 all_listings, previous_count, no_new_count, order, processed_count,
                 car_listings, seen_cars, result, outcome, first_seen, scroll_log,
                 parsed_log>>

ScoreNext == AnalyzeDeals

ScoreSpec == ScoreInit /\ [][ScoreNext]_vars

(***************************************************************************)
(* The scorer applied to one record of the kind the parser returns: a      *)
(* positive price, a year up to the current one, a make, a mileage.        *)
(***************************************************************************)
MaxPrice == 100

\* the prices 1..MaxPrice, then a price of a listing and two prices with
\* a fraction
DealPrices ==
  {to_str(p) : p \in 1..MaxPrice} \cup {<<"1", "4", "5", "0", "0">>, <<"0", ".", "5">>, <<"1", ".", "5">>}

DealYears == {to_str(y) : y \in {2026, 2024, 2021, 1990}} \cup {Unknown}

DealMakes == {<<"B", "M", "W">>, <<"H", "o", "n", "d", "a">>, <<"K", "i", "a">>}

DealMileages == {<<"4", "0", "0", "0", "0">>, <<"6", "0", "0", "0", "0">>, Unknown}

\* The ratio of this record is exactly a threshold of lines 711-715, or
\* 1000 * ratio lies halfway between two integers: the comparison and
\* round() then follow the binary value of the float, which is off the
\* exact one.
float_sensitive(car, this_year) ==
  LET entry == score_car(car, this_year)
      ratio == deal_ratio(entry[Len(entry)], mileage_condition(car).factor,
                          float_val(car[1]))
  IN \/ 2 * ((ratio.n * 10) % ratio.d) = ratio.d
     \/ \E t \in {95, 110, 125} : ratio.n = t * ratio.d

AllDealRecords ==
  {<<price, year, make, <<"C", "i", "v", "i", "c">>, mileage, Unknown,
     "https://www.facebook.com/marketplace/item/1">> :
     price \in DealPrices, year \in DealYears, make \in DealMakes,
     mileage \in DealMileages}

\* the records whose ratio the float arithmetic treats as the exact one
DealRecords ==
  {car \in AllDealRecords : \A this_year \in CurrentYears : ~float_sensitive(car, this_year)}

DealInit ==
  /\ variant = "safe"
  /\ scroll_count = 0
  /\ max_listings = 1
  /\ current_year \in CurrentYears
  /\ pc = "Done"
  /\ scroll_i = 0
  /\ all_listings = {}
  /\ previous_count = 0
  /\ no_new_count = 0
  /\ order = <<>>
  /\ processed_count = 0
  /\ car_listings = <<>>
  /\ seen_cars = {}
  /\ result \in {<<car>> : car \in DealRecords}
  /\ outcome = "given"
  /\ first_seen = <<>>
  /\ scroll_log = <<>>
  /\ parsed_log = <<>>
  /\ final_listings = <<>>
  /\ page_text = None
  /\ valuation_calls = {}
  /\ link_text = None
  /\ preferences = <<>>
  /\ facebook_url = None

DealSpec == DealInit /\ [][ScoreNext]_vars

(***************************************************************************)
(* The estimator on its own: get_market_pricing_estimate called with       *)
(* arguments of ValueMakes x ValueModels x ValueYears x ValuePrices while  *)
(* the calendar year it reads on line 632 moves on.                        *)
(***************************************************************************)
MaxCalls == 2

YearsAhead == 1

ValueMakes == {<<"B", "M", "W">>, <<"T", "o", "y", "o", "t", "a">>, <<"K", "i", "a">>}

ValueModels == {<<"C", "a", "m", "r", "y">>}

ValueYears == {<<"2", "0", "2", "2">>, <<"2", "0", "1", "5">>}

ValuePrices == {<<"1">>, <<"1", "2">>, <<"1", "4", "5", "0", "0">>, <<"N", "/", "A">>}

FirstYear == CHOOSE y \in CurrentYears : \A z \in CurrentYears : y <= z

ClockYears == FirstYear..(FirstYear + YearsAhead)

\* the return value of each call
market_prices_of ==
  [make \in ValueMakes, model \in ValueModels, year \in ValueYears,
   price \in ValuePrices, now \in ClockYears |->
     get_market_pricing_estimate(make, model, year, price, now)]

ValueInit ==
  /\ variant = "safe"
  /\ scroll_count = 0
  /\ max_listings = 1
  /\ current_year = FirstYear
  /\ pc = "Valuing"
  /\ scroll_i = 0
  /\ all_listings = {}
  /\ previous_count = 0
  /\ no_new_count = 0
  /\ order = <<>>
  /\ processed_count = 0
  /\ car_listings = <<>>
  /\ seen_cars = {}
  /\ result = <<>>
  /\ outcome = "given"
  /\ first_seen = <<>>
  /\ scroll_log = <<>>
  /\ parsed_log = <<>>
  /\ final_listings = <<>>
  /\ page_text = None
  /\ valuation_calls = {}
  /\ link_text = None
  /\ preferences = <<>>
  /\ facebook_url = None

\* lines 627-661: one call, which reads the year on line 632
Estimate ==
  /\ pc = "Valuing"
  /\ Cardinality(valuation_calls) < MaxCalls
  /\ \E make \in ValueMakes, model \in ValueModels, year \in ValueYears,
        price \in ValuePrices :
       valuation_calls' = valuation_calls \cup
         {[make |-> make, model |-> model, year |-> year, price |-> price,
           now |-> current_year,
           market_prices |-> market_prices_of[make, model, year, price, current_year]]}
  /\ UNCHANGED <<link_text, preferences, facebook_url, page_text, variant, scroll_count, max_listings, current_year, pc,
                 scroll_i, all_listings, previous_count, no_new_count, order,
                 processed_count, car_listings, seen_cars, result, outcome,
                 first_seen, scroll_log, parsed_log, final_listings>>

\* the calendar year changes between two calls
NewYear ==
  /\ pc = "Valuing"
  /\ current_year < FirstYear + YearsAhead
  /\ current_year' = current_year + 1
  /\ UNCHANGED <<link_text, preferences, facebook_url, page_text, valuation_calls, variant, scroll_count, max_listings, pc,
                 scroll_i, all_listings, previous_count, no_new_count, order,
                 processed_count, car_listings, seen_cars, result, outcome,
                 first_seen, scroll_log, parsed_log, final_listings>>

ValueNext == Estimate \/ NewYear

ValueSpec == ValueInit /\ [][ValueNext]_vars

(***************************************************************************)
(* The parser on its own: parse_car_text_enhanced applied to the text of   *)
(* one link element, as lines 420-423 / 1291-1294 apply it.                *)
(***************************************************************************)
MaxTokens == 4

\* ' '.join(tokens)
RECURSIVE str_join(_)
str_join(tokens) ==
  IF tokens = <<>> THEN <<>>
  ELSE IF Len(tokens) = 1 THEN tokens[1]
  ELSE tokens[1] \o <<" ">> \o str_join(Tail(tokens))

\* str.upper()
str_upper(s) == [i \in 1..Len(s) |-> upper_char(s[i])]

\* tokens of a listing text: a price, a $ that is followed by a comma and no
\* digit, a plausible year, a year before 1990, a brand and a word
ParseTokens ==
  {<<"$", "1", "4", ",", "5", "0", "0">>, <<"$", ",">>,
   <<"2", "0", "1", "5">>, <<"1", "9", "8", "9">>,
   <<"H", "o", "n", "d", "a">>, <<"c", "l", "e", "a", "n">>}

\* every text of at most MaxTokens of these tokens
TokenTexts ==
  {str_join(tokens) : tokens \in UNION {[1..n -> ParseTokens] : n \in 0..MaxTokens}}

\* '$14,500 2015 Honda Civic'
text_listing == <<"$", "1", "4", ",", "5", "0", "0", " ", "2", "0", "1", "5", " ", "H", "o", "n", "d", "a", " ", "C", "i", "v", "i", "c">>

\* what a listing says about its mileage
MileagePhrases ==
  {<<"8", "5", "k", " ", "m", "i", "l", "e", "s">>,
   <<"8", "5", "0", "0", "0", " ", "m", "i", "l", "e", "s">>,
   <<"8", "5", "0", "k">>,
   <<"8", "5", ",", "0", "0", "0", " ", "m", "i", "l", "e", "s">>,
   <<"9", "9", "9", "k", " ", "m", "i", "l", "e", "s">>,
   <<"1", "0", "0", "0", "k", " ", "m", "i", "l", "e", "s">>,
   <<"1", "5", "0", "0", "k">>,
   <<"8", "5", " ", "m", "i">>,
   <<"0", "k">>,
   <<"8", "5", "K", " ", "M", "i", "l", "e", "s">>}

MileageTexts == {text_listing \o <<" ">> \o phrase : phrase \in MileagePhrases}

\* the spellings of a brand of the vocabulary: lower, title and upper case
Spellings(brand) == {brand, str_title(brand), str_upper(brand)}

\* '$14,500 2015 ' followed by a spelling of a brand of car_brands
BrandTexts ==
  {<<"$", "1", "4", ",", "5", "0", "0", " ", "2", "0", "1", "5", " ">> \o spelling :
     spelling \in UNION {Spellings(car_brands[b]) : b \in DOMAIN car_brands}}

ParseTexts == TokenTexts \cup MileageTexts \cup BrandTexts

ParseInit ==
  /\ variant = "safe"
  /\ scroll_count = 0
  /\ max_listings = 1
  /\ current_year \in CurrentYears
  /\ pc = "Parsing"
  /\ scroll_i = 0
  /\ all_listings = {}
  /\ previous_count = 0
  /\ no_new_count = 0
  /\ order = <<>>
  /\ processed_count = 0
  /\ car_listings = <<>>
  /\ seen_cars = {}
  /\ result = <<>>
  /\ outcome = "given"
  /\ first_seen = <<>>
  /\ scroll_log = <<>>
  /\ parsed_log = <<>>
  /\ final_listings = <<>>
  /\ page_text = None
  /\ valuation_calls = {}
  /\ link_text \in ParseTexts
  /\ preferences = <<>>
  /\ facebook_url = None

\* lines 423 / 1294: car_data = parse_car_text_enhanced(text, full_url)
ParseListing ==
  /\ pc = "Parsing"
  /\ pc' = "Parsed"
  /\ parsed_log' =
       <<parse_car_text_enhanced(link_text, full_url("/marketplace/item/1"),
                                 current_year)>>
  /\ UNCHANGED <<link_text, preferences, facebook_url, page_text, valuation_calls,
                 variant, scroll_count, max_listings, current_year, scroll_i,
                 all_listings, previous_count, no_new_count, order, processed_count,
                 car_listings, seen_cars, result, outcome, first_seen, scroll_log,
                 final_listings>>

ParseNext == ParseListing

ParseSpec == ParseInit /\ [][ParseNext]_vars

(***************************************************************************)
(* read_preferences and build_facebook_url.  A value of the mapping is an  *)
(* int, [int |-> n], or a str, [str |-> s]; the keys are plain strings.    *)
(***************************************************************************)
\* the keys the preferences file of the model can hold
PrefKeys == {"Location", "Search Term", "Minimum Price", "Model"}

\* the second column of a line of the file
\* '', 'atlanta', '2015', '0', 'Honda Civic'
RawValues ==
  {<<>>, <<"a", "t", "l", "a", "n", "t", "a">>, <<"2", "0", "1", "5">>, <<"0">>, <<"H", "o", "n", "d", "a", " ", "C", "i", "v", "i", "c">>}

\* the files: for each key no line, or one line with any of the values
PrefFiles ==
  UNION {[keys -> RawValues] : keys \in SUBSET PrefKeys}

\* lines 67-77: int(value) when it succeeds, the string otherwise
read_preferences(file) ==
  [key \in DOMAIN file |->
     IF int_ok(file[key]) THEN [int |-> int_val(file[key])] ELSE [str |-> file[key]]]

\* lines 92-117
get_default_preferences ==
  ("Minimum Mileage" :> [int |-> 0]) @@
  ("Maximum Mileage" :> [int |-> 200000]) @@
  ("Minimum Price" :> [int |-> 250]) @@
  ("Maximum Price" :> [int |-> 55000]) @@
  ("Minimum Year" :> [int |-> 1995]) @@
  ("Maximum Year" :> [int |-> 2020]) @@
  ("Scroll Down Length" :> [int |-> 10]) @@
  ("Search Term" :> [str |-> <<>>]) @@
  ("Location" :> [str |-> <<"a", "t", "l", "a", "n", "t", "a">>]) @@
  ("Make" :> [str |-> <<>>]) @@
  ("Model" :> [str |-> <<>>]) @@
  ("Transmission" :> [str |-> <<>>]) @@
  ("Fuel Type" :> [str |-> <<>>]) @@
  ("Body Style" :> [str |-> <<>>]) @@
  ("Condition" :> [str |-> <<>>]) @@
  ("Seller Type" :> [str |-> <<>>]) @@
  ("Sort By" :> [str |-> <<"c", "r", "e", "a", "t", "i", "o", "n", "_", "t", "i", "m", "e", "_", "d", "e", "s", "c", "e", "n", "d">>]) @@
  ("Radius" :> [str |-> <<"2", "0">>])

is_str(value) == DOMAIN value = {"str"}

\* the truth value of a Python int or str
truthy(value) == IF is_str(value) THEN value.str # <<>> ELSE value.int # 0

\* f"{value}"
format_value(value) ==
  IF is_str(value) THEN value.str
  ELSE IF value.int < 0 THEN <<"-">> \o to_str(0 - value.int) ELSE to_str(value.int)

\* str.replace(ch, by) for a character ch
RECURSIVE str_replace(_, _, _)
str_replace(s, ch, by) ==
  IF s = <<>> THEN <<>>
  ELSE (IF s[1] = ch THEN by ELSE <<s[1]>>) \o str_replace(Tail(s), ch, by)

\* lines 134-142
param_mapping ==
  << <<"Minimum Price", <<"m", "i", "n", "P", "r", "i", "c", "e">>>>,
     <<"Maximum Price", <<"m", "a", "x", "P", "r", "i", "c", "e">>>>,
     <<"Minimum Mileage", <<"m", "i", "n", "M", "i", "l", "e", "a", "g", "e">>>>,
     <<"Maximum Mileage", <<"m", "a", "x", "M", "i", "l", "e", "a", "g", "e">>>>,
     <<"Minimum Year", <<"m", "i", "n", "Y", "e", "a", "r">>>>,
     <<"Maximum Year", <<"m", "a", "x", "Y", "e", "a", "r">>>>,
     <<"Radius", <<"r", "a", "d", "i", "u", "s">>>> >>

\* lines 152-161
filter_mapping ==
  << <<"Make", <<"m", "a", "k", "e">>>>,
     <<"Model", <<"m", "o", "d", "e", "l">>>>,
     <<"Transmission", <<"t", "r", "a", "n", "s", "m", "i", "s", "s", "i", "o", "n">>>>,
     <<"Fuel Type", <<"f", "u", "e", "l", "_", "t", "y", "p", "e">>>>,
     <<"Body Style", <<"b", "o", "d", "y", "_", "s", "t", "y", "l", "e">>>>,
     <<"Condition", <<"c", "o", "n", "d", "i", "t", "i", "o", "n">>>>,
     <<"Seller Type", <<"s", "e", "l", "l", "e", "r", "_", "t", "y", "p", "e">>>>,
     <<"Sort By", <<"s", "o", "r", "t", "B", "y">>>> >>

\* '&'.join(params)
RECURSIVE join_params(_)
join_params(params) ==
  IF params = <<>> THEN <<>>
  ELSE IF Len(params) = 1 THEN params[1]
  ELSE params[1] \o <<"&">> \o join_params(Tail(params))

\* lines 144-149: the parameters of the first n entries of param_mapping
RECURSIVE basic_params(_, _)
basic_params(prefs, n) ==
  IF n = 0 THEN <<>>
  ELSE LET pref_key == param_mapping[n][1]
           rest == basic_params(prefs, n - 1)
       IN IF pref_key \in DOMAIN prefs /\ truthy(prefs[pref_key])
          THEN Append(rest, param_mapping[n][2] \o <<"=">> \o format_value(prefs[pref_key]))
          ELSE rest

\* lines 163-168: the parameters of the first n entries of filter_mapping,
\* for values that have the method lower()
RECURSIVE filter_params(_, _)
filter_params(prefs, n) ==
  IF n = 0 THEN <<>>
  ELSE LET pref_key == filter_mapping[n][1]
           rest == filter_params(prefs, n - 1)
       IN IF pref_key \in DOMAIN prefs /\ truthy(prefs[pref_key])
          THEN Append(rest, filter_mapping[n][2] \o <<"=">>
                              \o str_replace(str_lower(prefs[pref_key].str), " ", <<"_">>))
          ELSE rest

\* a value without the method the code calls on it: line 125 calls strip()
\* on the search term, line 165 lower() on every filter value that is true
raises_attribute_error(prefs) ==
  \/ "Search Term" \in DOMAIN prefs /\ ~is_str(prefs["Search Term"])
  \/ \E n \in DOMAIN filter_mapping :
       /\ filter_mapping[n][1] \in DOMAIN prefs
       /\ truthy(prefs[filter_mapping[n][1]])
       /\ ~is_str(prefs[filter_mapping[n][1]])

URL_MARKETPLACE == <<"h", "t", "t", "p", "s", ":", "/", "/", "w", "w", "w", ".", "f", "a", "c", "e", "b", "o", "o", "k", ".", "c", "o", "m", "/", "m", "a", "r", "k", "e", "t", "p", "l", "a", "c", "e", "/">>

\* lines 119-174; the return value, or the exception that leaves the function
build_facebook_url(prefs) ==
  IF raises_attribute_error(prefs) THEN [raised |-> "AttributeError"]
  ELSE
    LET location == IF "Location" \in DOMAIN prefs THEN format_value(prefs["Location"])
                    ELSE <<"a", "t", "l", "a", "n", "t", "a">>
        search_term == IF "Search Term" \in DOMAIN prefs
                       THEN str_strip(prefs["Search Term"].str) ELSE <<>>
        base_url == URL_MARKETPLACE \o location
                      \o (IF search_term # <<>> THEN <<"/", "s", "e", "a", "r", "c", "h", "?">> ELSE <<"/", "v", "e", "h", "i", "c", "l", "e", "s", "?">>)
        first == IF search_term # <<>>
                 THEN <<<<"q", "u", "e", "r", "y", "=">> \o str_replace(search_term, " ", <<"%", "2", "0">>)>>
                 ELSE <<>>
        params == first \o basic_params(prefs, Len(param_mapping))
                    \o filter_params(prefs, Len(filter_mapping))
                    \o <<<<"e", "x", "a", "c", "t", "=", "f", "a", "l", "s", "e">>>>
    IN [url |-> base_url \o join_params(params)]

PrefInit ==
  /\ variant = "safe"
  /\ scroll_count = 0
  /\ max_listings = 1
  /\ current_year \in CurrentYears
  /\ pc = "Building"
  /\ scroll_i = 0
  /\ all_listings = {}
  /\ previous_count = 0
  /\ no_new_count = 0
  /\ order = <<>>
  /\ processed_count = 0
  /\ car_listings = <<>>
  /\ seen_cars = {}
  /\ result = <<>>
  /\ outcome = "given"
  /\ first_seen = <<>>
  /\ scroll_log = <<>>
  /\ parsed_log = <<>>
  /\ final_listings = <<>>
  /\ page_text = None
  /\ valuation_calls = {}
  /\ link_text = None
  /\ preferences \in {read_preferences(file) : file \in PrefFiles}
                       \cup {get_default_preferences}
  /\ facebook_url = None

\* lines 1099 / 1150: facebook_url = build_facebook_url(preferences)
BuildUrl ==
  /\ pc = "Building"
  /\ pc' = "Built"
  /\ facebook_url' = build_facebook_url(preferences)
  /\ UNCHANGED <<link_text, preferences, page_text, valuation_calls,
                 variant, scroll_count, max_listings, current_year, scroll_i,
                 all_listings, previous_count, no_new_count, order, processed_count,
                 car_listings, seen_cars, result, outcome, first_seen, scroll_log,
                 parsed_log, final_listings>>

PrefNext == BuildUrl

PrefSpec == PrefInit /\ [][PrefNext]_vars

(***************************************************************************)
(* Properties                                                              *)
(***************************************************************************)
\* the last n growth iterations, each of a kind in kinds
last_iterations(n, kinds) ==
  /\ Len(scroll_log) >= n
  /\ \A k \in 0..(n - 1) : scroll_log[Len(scroll_log) - k] \in kinds

last_iteration(kind) == last_iterations(1, {kind})

\* the return statements of a run that completed without a parsed record
zero_records(by) == by \in {"no_links", "no_data"}

\* nothing of the scrolling and extraction phases has happened
collector_idle ==
  /\ scroll_i = 0
  /\ scroll_log = <<>>
  /\ all_listings = {}
  /\ order = <<>>
  /\ processed_count = 0
  /\ parsed_log = <<>>

\* C1: in scrape_facebook_marketplace_safe, once three consecutive growth
\* iterations have completed and each left the size of the accumulator
\* unchanged, the scrolling loop has been left: no further iteration is
\* enabled and the code that follows the loop has run, whatever remains of
\* the iteration budget and of the listing cap.
C1_StallStopsScrolling ==
  (variant = "safe" /\ last_iterations(StallLimit, {"stall"}))
    => pc \in {"Extracting", "Done"}

\* three stalls after a growing iteration, with budget and cap not reached:
\* extraction has begun
C1_Witness ==
  /\ variant = "safe"
  /\ scroll_log = <<"grow", "stall", "stall", "stall">>
  /\ scroll_i = 4
  /\ scroll_i < scroll_count
  /\ Cardinality(all_listings) < max_listings
  /\ pc = "Extracting"

\* C2: a growth iteration that raises counts as a stall: three consecutive
\* iterations that each either raised or found nothing new stop the
\* scrolling of scrape_facebook_marketplace_safe.
C2_ErrorCountsAsStall ==
  (variant = "safe" /\ last_iterations(StallLimit, {"stall", "error"}))
    => pc \in {"Extracting", "Done"}

\* C3: the return value tells a run without parsed records from a run that
\* ended with a collection error, and a run with extracted records from
\* both.  Every collection error returns create_realistic_sample_data, so
\* the other two outcomes must return something else.
C3_OutcomesDistinct ==
  (pc = "Done" /\ (zero_records(outcome) \/ outcome = "extracted"))
    => result # create_realistic_sample_data

\* C4: extraction processes the references in the order in which they
\* entered the accumulator, cut at the listing cap.
C4_InsertionOrder ==
  pc \in {"Extracting", "Done"} => order = limit_processing(first_seen, max_listings)

\* entry i of the parser's results is the first with its five fields
first_parsed(i) ==
  /\ parsed_log[i] # None
  /\ \A j \in 1..(i - 1) :
       parsed_log[j] = None \/ five_fields(parsed_log[j]) # five_fields(parsed_log[i])

\* entry i is one of several processed references with the same five fields
parsed_again(i) ==
  /\ parsed_log[i] # None
  /\ \E j \in DOMAIN parsed_log \ {i} :
       parsed_log[j] # None /\ five_fields(parsed_log[j]) = five_fields(parsed_log[i])

\* C5: no two kept records agree on (price, year, make, model, mileage);
\* when several processed references parse to the same five fields, exactly
\* the first of them is kept, as parsed (with its own URL), and the kept
\* records are the ones returned.
C5_FirstSeenKept ==
  /\ \A i, j \in DOMAIN car_listings :
       five_fields(car_listings[i]) = five_fields(car_listings[j]) => i = j
  /\ \A i \in DOMAIN parsed_log :
       parsed_again(i) =>
         (first_parsed(i) <=> \E k \in DOMAIN car_listings : car_listings[k] = parsed_log[i])
  /\ (pc = "Done" /\ outcome = "extracted") => result = car_listings

\* the car of a scored entry: what follows ratio, condition and deal quality,
\* without the valuation triple
scored_car(entry) == SubSeq(entry, 4, Len(entry) - 1)

occurrences(list, x) == Cardinality({k \in DOMAIN list : list[k] = x})

\* C6 as claimed: the scorer's output holds no two entries with equal
\* (price, year, make, model, mileage).
C6_ScorerDeduplicates ==
  pc = "Scored" =>
    \A i, j \in DOMAIN final_listings :
      five_fields(scored_car(final_listings[i])) = five_fields(scored_car(final_listings[j]))
        => i = j

\* C6 as amended: the scorer emits one entry per record that it can score,
\* so a record that occurs twice in its input, under two source references,
\* occurs twice in its output; it removes no duplicate.
C6_ScorerKeepsBoth ==
  pc = "Scored" =>
    /\ \A k \in DOMAIN result :
         scorable(result[k]) =>
           occurrences([e \in DOMAIN final_listings |-> scored_car(final_listings[e])],
                       result[k])
             = occurrences(result, result[k])
    /\ Len(final_listings) = Cardinality({k \in DOMAIN result : scorable(result[k])})

\* the same car under two source references has been scored
C6_Witness ==
  /\ pc = "Scored"
  /\ Len(result) = 2
  /\ \A k \in DOMAIN result : Len(result[k]) = 7 /\ scorable(result[k])
  /\ five_fields(result[1]) = five_fields(result[2])
  /\ result[1][7] # result[2][7]
  /\ Len(final_listings) = 2

\* C7: the collector executes at most scroll_count growth iterations, none
\* when scroll_count <= 0, and every run returns.
C7_BudgetBoundsScrolling ==
  /\ [](scroll_i <= Max(scroll_count, 0))
  /\ <>(pc = "Done")

\* a run that spent its whole budget, on growth, stalls and errors, then
\* extracted and returned
C7_Witness ==
  /\ pc = "Done"
  /\ outcome = "extracted"
  /\ scroll_count = MaxScroll
  /\ scroll_i = scroll_count
  /\ \A kind \in {"grow", "stall", "error"} :
       \E k \in DOMAIN scroll_log : scroll_log[k] = kind

\* C8: no growth iteration starts while the accumulator holds max_listings
\* references or more.
C8_CapStopsScrolling ==
  pc = "Scrolling" => Cardinality(all_listings) < max_listings

\* the cap was reached by an iteration that found new references, with
\* budget left: extraction has begun
C8_Witness ==
  /\ pc = "Extracting"
  /\ last_iteration("grow")
  /\ Cardinality(all_listings) >= max_listings
  /\ scroll_i < scroll_count

\* C9: extraction processes distinct accumulated references, at most
\* max_listings of them, each once, so it keeps at most
\* min(size of the accumulator, max_listings) records.
C9_ExtractionBounded ==
  /\ Len(order) <= Min(Cardinality(all_listings), max_listings)
  /\ \A i, j \in DOMAIN order : order[i] = order[j] => i = j
  /\ \A i \in DOMAIN order : order[i] \in all_listings
  /\ processed_count <= Len(order)
  /\ Len(parsed_log) = processed_count
  /\ Len(car_listings) <= processed_count

\* the last harvest pushed the accumulator above the cap, and as many
\* records as the cap allows were extracted
C9_Witness ==
  /\ pc = "Done"
  /\ Cardinality(all_listings) > max_listings
  /\ max_listings = 2
  /\ Len(car_listings) = max_listings

\* the stalls after the last growing iteration of the history
stalls_since_grow ==
  LET grows == {k \in DOMAIN scroll_log : scroll_log[k] = "grow"}
      last == CHOOSE k \in grows : \A g \in grows : g <= k
  IN Cardinality({k \in DOMAIN scroll_log : k > last /\ scroll_log[k] = "stall"})

\* C10: the stall counter of scrape_facebook_marketplace_safe stays within
\* 0..3, is 0 after an iteration that enlarged the accumulator, and counts
\* no stall that precedes the last such iteration.
C10_ConsecutiveStallsOnly ==
  /\ no_new_count \in 0..StallLimit
  /\ pc = "Scrolling" => no_new_count < StallLimit
  /\ (variant = "safe" /\ last_iteration("grow")) => no_new_count = 0
  /\ (variant = "safe" /\ \E k \in DOMAIN scroll_log : scroll_log[k] = "grow")
       => no_new_count <= stalls_since_grow

\* three stalls in four iterations, separated by a growing one: the
\* scrolling goes on
C10_Witness ==
  /\ variant = "safe"
  /\ scroll_log = <<"stall", "stall", "grow", "stall">>
  /\ pc = "Scrolling"
  /\ no_new_count = 1

\* C11: when the text of the loaded page contains "log in" or "sign up" in
\* any letter case, the next step of the run is the return of the fallback
\* dataset: no growth, harvest or text-fetch step is executed.
C11_LoginStopsRun ==
  [][(pc = "Loaded" /\ login_required(page_text))
       => /\ pc' = "Done"
          /\ result' = create_realistic_sample_data
          /\ collector_idle']_vars

\* C12: a collaborator failure before the page is loaded never leaves the
\* scrape function as an exception: the run has returned the fallback
\* dataset and nothing of the scrolling phase has happened.
C12_FailureReturnsFallback ==
  /\ outcome # "exception"
  /\ outcome \in Failures =>
       /\ pc = "Done"
       /\ result = create_realistic_sample_data
       /\ page_text = None
       /\ collector_idle

\* page.goto raised and the run returned the sample data
C12_Witness ==
  /\ outcome = "navigation_failed"
  /\ pc = "Done"
  /\ result = create_realistic_sample_data

\* a < b for two prices held as fractions
price_below(a, b) == a.num * b.den < b.num * a.den

\* the two scored entries are of records that differ in the price only,
\* the first one cheaper, both prices positive
cheaper_twin(a, b) ==
  /\ Tail(scored_car(a)) = Tail(scored_car(b))
  /\ float_val(scored_car(a)[1]).num > 0
  /\ price_below(float_val(scored_car(a)[1]), float_val(scored_car(b)[1]))

\* C13: of two scored records that differ in the listing price only, with
\* 0 < p1 < p2, the one priced p1 has the strictly greater deal ratio.
C13_CheaperScoresHigher ==
  pc = "Scored" =>
    \A i, j \in DOMAIN final_listings :
      cheaper_twin(final_listings[i], final_listings[j])
        => final_listings[i][1] > final_listings[j][1]

same_arguments(a, b) ==
  /\ a.make = b.make
  /\ a.model = b.model
  /\ a.year = b.year
  /\ a.price = b.price

\* C14: two calls of get_market_pricing_estimate with identical
\* (make, model, year, price) return identical triples, whatever the
\* calendar year at the time of each call.
C14_EstimateIsPure ==
  \A a, b \in valuation_calls :
    same_arguments(a, b) => a.market_prices = b.market_prices

is_premium(make) == in_list(str_lower(make), premium_brands)

\* C15: of two calls in the same calendar year with equal model, year and
\* price, a price and a year that int() accepts, the one whose make is in
\* the premium set returns the strictly higher trade-in, private-party and
\* retail value than the one whose make is not.
C15_PremiumStrictlyHigher ==
  \A a, b \in valuation_calls :
    (/\ a.model = b.model /\ a.year = b.year /\ a.price = b.price /\ a.now = b.now
     /\ int_ok(a.price) /\ int_ok(a.year)
     /\ is_premium(a.make) /\ ~is_premium(b.make))
      => \A k \in 1..3 : a.market_prices[k] > b.market_prices[k]

\* the cars of the scored entries, in output order
scored_cars == [e \in DOMAIN final_listings |-> scored_car(final_listings[e])]

\* the minimal validation: four fields at least, the price convertible to
\* a number (the year is then present)
validated(car) == Len(car) >= 4 /\ float_ok(car[1])

\* C16: the scorer emits one entry for every input record that has at
\* least the four fields price, year, make, model and a price float()
\* accepts, and none for any other record.
C16_OneEntryPerValidRecord ==
  pc = "Scored" =>
    /\ \A k \in DOMAIN result :
         occurrences(scored_cars, result[k])
           = IF validated(result[k]) THEN occurrences(result, result[k]) ELSE 0
    /\ Len(final_listings) = Cardinality({k \in DOMAIN result : validated(result[k])})

\* the mileage field is present and int() accepts it, commas removed
mileage_parses(car) ==
  /\ Len(car) > 4
  /\ car[5] # Unknown
  /\ int_ok(str_remove(car[5], ","))

\* the label and the factor (in hundredths) the thresholds give
condition_by_thresholds(car) ==
  IF ~mileage_parses(car) THEN [condition |-> "Unknown", factor |-> 90]
  ELSE LET m == int_val(str_remove(car[5], ","))
       IN IF m < 50000 THEN [condition |-> "Excellent", factor |-> 100]
          ELSE IF m < 80000 THEN [condition |-> "Good", factor |-> 92]
          ELSE IF m < 120000 THEN [condition |-> "Fair", factor |-> 85]
          ELSE [condition |-> "Poor", factor |-> 75]

\* the entry carries this label, and its ratio is the one this factor gives
entry_has_condition(entry, cond) ==
  /\ entry[2] = cond.condition
  /\ entry[1] = round3(deal_ratio(entry[Len(entry)], cond.factor,
                                  float_val(scored_car(entry)[1])))

\* C17: a scored record is labelled Unknown (factor 0.90) exactly when its
\* mileage is missing or no integer; a record whose mileage is the integer
\* m is Excellent (1.0) if m < 50000, Good (0.92) if m < 80000, Fair (0.85)
\* if m < 120000 and Poor (0.75) otherwise.
C17_ConditionByMileage ==
  pc = "Scored" =>
    \A e \in DOMAIN final_listings :
      entry_has_condition(final_listings[e],
                          condition_by_thresholds(scored_car(final_listings[e])))

\* the label of every scored entry whose mileage is the given one
labelled(mileage, label) ==
  \A e \in DOMAIN final_listings :
    (Len(scored_car(final_listings[e])) > 4 /\ scored_car(final_listings[e])[5] = mileage)
      => final_listings[e][2] = label

\* C18: the thresholds are strict: mileage 50000 is Good, 80000 Fair and
\* 120000 Poor, while 49999, 79999 and 119999 are Excellent, Good and Fair.
C18_StrictThresholds ==
  pc = "Scored" =>
    /\ labelled(<<"4", "9", "9", "9", "9">>, "Excellent")
    /\ labelled(<<"5", "0", "0", "0", "0">>, "Good")
    /\ labelled(<<"7", "9", "9", "9", "9">>, "Good")
    /\ labelled(<<"8", "0", "0", "0", "0">>, "Fair")
    /\ labelled(<<"1", "1", "9", "9", "9", "9">>, "Fair")
    /\ labelled(<<"1", "2", "0", "0", "0", "0">>, "Poor")

\* records on both sides of the first threshold, and one on the last, scored
C18_Witness ==
  /\ pc = "Scored"
  /\ Len(final_listings) = 3
  /\ \A m \in {<<"4", "9", "9", "9", "9">>, <<"5", "0", "0", "0", "0">>, <<"1", "2", "0", "0", "0", "0">>} :
       \E e \in DOMAIN final_listings : scored_car(final_listings[e])[5] = m

\* the entries of list with the given ratio, in the order of list
with_ratio(list, ratio) ==
  LET same(entry) == entry[1] = ratio
  IN SelectSeq(list, same)

\* C19: the output of the scorer is in descending order of ratio, holds
\* every scored record exactly once, and holds the records of equal ratio
\* in their input order; the sample data is one of the inputs.
C19_SortedStable ==
  pc = "Scored" =>
    LET scored == score_all(result, current_year)
    IN /\ \A i \in 1..(Len(final_listings) - 1) :
            final_listings[i][1] >= final_listings[i + 1][1]
       /\ Len(final_listings) = Len(scored)
       /\ \A e \in DOMAIN scored :
            with_ratio(final_listings, scored[e][1]) = with_ratio(scored, scored[e][1])

\* the last input record was moved to the front, and two distinct entries
\* of equal ratio follow it
C19_Witness ==
  /\ pc = "Scored"
  /\ Len(result) = 3
  /\ Len(final_listings) = 3
  /\ scored_car(final_listings[1]) = result[3]
  /\ final_listings[1][1] > final_listings[2][1]
  /\ final_listings[2][1] = final_listings[3][1]
  /\ scored_car(final_listings[2]) = result[1]
  /\ scored_car(final_listings[3]) = result[2]
  /\ result[1] # result[2]

\* C20: the scorer returns for every list of records; a record whose
\* scoring raises is dropped, and the output is the one the scorer gives
\* for the input without the records that raise.
C20_FailureDropsOneRecord ==
  pc = "Scored" =>
    /\ final_listings = calculate_deal_scores(SelectSeq(result, scorable), current_year)
    /\ \A k \in DOMAIN result :
         scorable(result[k]) => \E e \in DOMAIN final_listings :
                                  scored_car(final_listings[e]) = result[k]

\* a record whose price is no number between two records that are scored
C20_Witness ==
  /\ pc = "Scored"
  /\ Len(result) = 3
  /\ scorable(result[1])
  /\ Len(result[2]) >= 4 /\ ~float_ok(result[2][1])
  /\ scorable(result[3])
  /\ Len(final_listings) = 2

\* the token is a $ followed by digits and commas, one digit at least
is_price_token(token) ==
  /\ str_startswith(token, "$")
  /\ Len(token) > 1
  /\ \A i \in 2..Len(token) : IsDigit(token[i]) \/ token[i] = ","
  /\ \E i \in 2..Len(token) : IsDigit(token[i])

\* the token is four digits that spell a year of 1990..this_year
is_year_token(token, this_year) ==
  /\ Len(token) = 4
  /\ str_isdigit(token)
  /\ 1990 <= to_int(token) /\ to_int(token) <= this_year

\* the token is an entry of the brand vocabulary in some letter case
is_brand_token(token) == in_list(str_lower(token), car_brands)

\* the first token of the text that satisfies the test
first_token(text, Test(_)) ==
  LET tokens == str_split(text)
  IN tokens[CHOOSE i \in DOMAIN tokens :
              Test(tokens[i]) /\ \A j \in 1..(i - 1) : ~Test(tokens[j])]

has_token(text, Test(_)) ==
  \E i \in DOMAIN str_split(text) : Test(str_split(text)[i])

\* C21: a text that holds a $-prefixed price token, a year token and a
\* brand token parses to a record whose price, year and make are those of
\* the first such tokens, whatever its other tokens and their order.
C21_ThreeFieldsAsParsed ==
  LET is_year(token) == is_year_token(token, current_year)
  IN (/\ pc = "Parsed"
      /\ has_token(link_text, is_price_token)
      /\ has_token(link_text, is_year)
      /\ has_token(link_text, is_brand_token))
       => /\ parsed_log[1] # None
          /\ parsed_log[1][1] = str_remove(Tail(first_token(link_text, is_price_token)), ",")
          /\ parsed_log[1][2] = first_token(link_text, is_year)
          /\ parsed_log[1][3] = str_title(first_token(link_text, is_brand_token))

\* the text holds a $ followed by a number: digits, with commas among them
has_dollar_number(text) ==
  \E i \in 1..Len(text) :
    /\ text[i] = "$"
    /\ \E j \in (i + 1)..Len(text) :
         /\ IsDigit(text[j])
         /\ \A k \in (i + 1)..(j - 1) : IsDigit(text[k]) \/ text[k] = ","

\* the token is spelled like a brand of the vocabulary once its hyphens and
\* underscores are taken out
is_make_token(token) == in_list(brand_key(token), car_brands)

\* C22: the parser returns absent for a text without a $-prefixed number,
\* without a year token or without a make token; a record it returns has a
\* price, a year and a make that are not empty and a model, a mileage and a
\* location that are "Unknown" when missing; and a text is rejected only
\* for its price, year or make.
C22_AbsentWithoutEssentials ==
  LET is_year(token) == is_year_token(token, current_year)
      tokens == str_split(link_text)
      car_data == parsed_log[1]
  IN pc = "Parsed" =>
       /\ ~has_dollar_number(link_text) => car_data = None
       /\ ~has_token(link_text, is_year) => car_data = None
       /\ ~has_token(link_text, is_make_token) => car_data = None
       /\ car_data # None =>
            /\ Len(car_data) = 7
            /\ \A f \in 1..6 : car_data[f] # <<>>
            /\ (tokens # <<>> /\ is_make_token(tokens[Len(tokens)])
                /\ \A k \in 1..(Len(tokens) - 1) : ~is_make_token(tokens[k]))
                 => car_data[4] = Unknown
            /\ (/\ ~str_contains(str_lower(link_text), "k")
                /\ ~str_has(str_lower(link_text), <<"m", "i">>))
                 => car_data[5] = Unknown
            /\ (\A i \in 1..(Len(link_text) - 1) :
                  link_text[i] = "," => IsDigit(link_text[i + 1]))
                 => car_data[6] = Unknown
       /\ car_data = None =>
            \/ extract_price(tokens, 1) = None
            \/ ~has_token(link_text, is_year)
            \/ ~has_token(link_text, is_make_token)

\* '$14,500 2015 Honda' was parsed to a record without model, mileage and
\* location
C22_Witness ==
  /\ pc = "Parsed"
  /\ link_text = <<"$", "1", "4", ",", "5", "0", "0", " ", "2", "0", "1", "5", " ", "H", "o", "n", "d", "a">>
  /\ parsed_log[1] = <<<<"1", "4", "5", "0", "0">>, <<"2", "0", "1", "5">>, <<"H", "o", "n", "d", "a">>, Unknown, Unknown, Unknown, full_url("/marketplace/item/1")>>

\* the text of a listing whose mileage reads phrase
with_phrase(phrase) == text_listing \o <<" ">> \o phrase

\* the listing with this phrase was parsed and its mileage field is mileage
mileage_of(phrase, mileage) ==
  (pc = "Parsed" /\ link_text = with_phrase(phrase))
    => parsed_log[1] # None /\ parsed_log[1][5] = mileage

\* the number a mileage phrase starts with, commas left out
RECURSIVE leading_number(_)
leading_number(phrase) ==
  IF phrase # <<>> /\ (IsDigit(phrase[1]) \/ phrase[1] = ",")
  THEN (IF IsDigit(phrase[1]) THEN <<phrase[1]>> ELSE <<>>) \o leading_number(Tail(phrase))
  ELSE <<>>

\* a k-suffixed value is multiplied by 1000 only when it is below 1000;
\* any other value is kept
multiplied_below_1000 ==
  \A phrase \in MileagePhrases :
    LET n == to_int(leading_number(phrase))
    IN mileage_of(phrase,
                  IF str_contains(str_lower(phrase), "k") /\ n < 1000
                  THEN to_str(n * 1000) ELSE to_str(n))

\* C23 as claimed: "85k miles" and "85000 miles" yield 85000, "850k" is
\* not multiplied by 1000 (it yields 850), and a k-suffixed value is
\* multiplied by 1000 only when it is below 1000.
C23_LargeKeptAsIs ==
  /\ mileage_of(<<"8", "5", "k", " ", "m", "i", "l", "e", "s">>, <<"8", "5", "0", "0", "0">>)
  /\ mileage_of(<<"8", "5", "0", "0", "0", " ", "m", "i", "l", "e", "s">>, <<"8", "5", "0", "0", "0">>)
  /\ mileage_of(<<"8", "5", "0", "k">>, <<"8", "5", "0">>)
  /\ \A phrase \in MileagePhrases :
       (pc = "Parsed" /\ link_text = with_phrase(phrase) /\ parsed_log[1] # None
        /\ parsed_log[1][5] = to_str(to_int(leading_number(phrase)) * 1000)
        /\ to_int(leading_number(phrase)) # 0)
         => (str_contains(str_lower(phrase), "k") /\ to_int(leading_number(phrase)) < 1000)

\* C23 as amended: "85k miles" and "85000 miles" yield 85000; "850k" is
\* below 1000 before the multiplication and yields 850000; a k-suffixed
\* value of 1000 or more, like "1500k", is kept as it is (1500): a
\* k-suffixed value is multiplied by 1000 exactly when it is below 1000.
C23_MileageNormalized ==
  /\ mileage_of(<<"8", "5", "k", " ", "m", "i", "l", "e", "s">>, <<"8", "5", "0", "0", "0">>)
  /\ mileage_of(<<"8", "5", "0", "0", "0", " ", "m", "i", "l", "e", "s">>, <<"8", "5", "0", "0", "0">>)
  /\ mileage_of(<<"8", "5", "0", "k">>, <<"8", "5", "0", "0", "0", "0">>)
  /\ mileage_of(<<"1", "5", "0", "0", "k">>, <<"1", "5", "0", "0">>)
  /\ multiplied_below_1000

\* the listing with "850k" was parsed to the mileage 850000
C23_Witness ==
  /\ pc = "Parsed"
  /\ link_text = with_phrase(<<"8", "5", "0", "k">>)
  /\ parsed_log[1] # None
  /\ parsed_log[1][5] = <<"8", "5", "0", "0", "0", "0">>

\* C24: every brand of the vocabulary is recognized: a text that holds a
\* price, a year and the brand as a token, in lower, title or upper case,
\* parses to a record whose make is the token in title case.
C24_EveryBrandRecognized ==
  (pc = "Parsed" /\ link_text \in BrandTexts)
    => /\ parsed_log[1] # None
       /\ parsed_log[1][3] = str_title(str_split(link_text)[3])

\* s ends with lit
str_endswith(s, lit) ==
  Len(s) >= Len(lit) /\ SubSeq(s, Len(s) - Len(lit) + 1, Len(s)) = lit

\* the key is in the mapping with a value that is not empty and not zero
is_set(prefs, pref_key) == pref_key \in DOMAIN prefs /\ truthy(prefs[pref_key])

\* C25: build_facebook_url raises for no mapping that read_preferences can
\* return: it returns a URL that ends with exact=false and holds, for each
\* key of the two name tables that is set, the parameter the table names.
C25_UrlForEveryMapping ==
  pc = "Built" =>
    /\ DOMAIN facebook_url = {"url"}
    /\ str_endswith(facebook_url.url, <<"e", "x", "a", "c", "t", "=", "f", "a", "l", "s", "e">>)
    /\ \A n \in DOMAIN param_mapping :
         is_set(preferences, param_mapping[n][1]) =>
           str_has(facebook_url.url,
                   param_mapping[n][2] \o <<"=">> \o format_value(preferences[param_mapping[n][1]]))
    /\ \A n \in DOMAIN filter_mapping :
         is_set(preferences, filter_mapping[n][1]) =>
           str_has(facebook_url.url, filter_mapping[n][2] \o <<"=">>)

\* the label the thresholds give to a ratio held in thousandths
quality_by_thresholds(ratio) ==
  IF ratio > 1250 THEN "Excellent"
  ELSE IF ratio > 1100 THEN "Good"
  ELSE IF ratio > 950 THEN "Fair"
  ELSE "Poor"

\* C26: the deal-quality label of every scored entry is the one the
\* thresholds give to the ratio the entry carries, rounded to 3 decimals:
\* Excellent above 1.25, Good above 1.10, Fair above 0.95, Poor otherwise.
C26_LabelAgreesWithRatio ==
  pc = "Scored" =>
    \A e \in DOMAIN final_listings :
      final_listings[e][3] = quality_by_thresholds(final_listings[e][1])

\* the price of the record is positive and its year, when it is a number,
\* is not later than the current year
priced_and_dated(car) ==
  /\ float_ok(car[1])
  /\ float_val(car[1]).num > 0
  /\ str_isdigit(car[2]) => to_int(car[2]) <= current_year

\* C27: the ratio of a scored record with a positive price and a year not
\* later than the current year is at most 1.19, and the record is not
\* labelled deal quality Excellent.
C27_RatioAtMost119 ==
  pc = "Scored" =>
    \A e \in DOMAIN final_listings :
      priced_and_dated(scored_car(final_listings[e]))
        => /\ final_listings[e][1] <= 1190
           /\ final_listings[e][3] # "Excellent"

\* a premium make of the current year with a low mileage was scored: its
\* ratio is 1.189
C27_Witness ==
  /\ pc = "Scored"
  /\ Len(final_listings) = 1
  /\ priced_and_dated(scored_car(final_listings[1]))
  /\ scored_car(final_listings[1])[3] = <<"B", "M", "W">>
  /\ final_listings[1][1] = 1189
  /\ final_listings[1][2] = "Excellent"
  /\ final_listings[1][3] = "Good"

\* C28: the two variants stop scrolling under the same conditions, so that
\* they execute the same growth iterations and return the same records:
\* whichever variant runs, a further growth iteration is taken only while
\* the budget is not spent, the cap is not reached and the last three
\* iterations were not three stalls.
C28_VariantsStopAlike ==
  \A v \in {"safe", "rich"} :
    (variant = v /\ pc = "Scrolling")
      => /\ scroll_i < scroll_count
         /\ Cardinality(all_listings) < max_listings
         /\ ~last_iterations(StallLimit, {"stall"})

\* C29: two records of the parser have the same signature only if their
\* price, year, make, model and mileage are equal, so that every parsed
\* record has its five fields among the records the collector keeps.
C29_SignatureInjective ==
  /\ \A i, j \in DOMAIN parsed_log :
       (/\ parsed_log[i] # None
        /\ parsed_log[j] # None
        /\ car_signature(parsed_log[i]) = car_signature(parsed_log[j]))
         => five_fields(parsed_log[i]) = five_fields(parsed_log[j])
  /\ \A i \in DOMAIN parsed_log :
       parsed_log[i] # None =>
         \E k \in DOMAIN car_listings :
           five_fields(car_listings[k]) = five_fields(parsed_log[i])

\* the step is a growth iteration of the safe variant that raised
growth_raised ==
  /\ variant = "safe"
  /\ pc = "Scrolling"
  /\ scroll_i' = scroll_i + 1
  /\ scroll_log' = logged(scroll_log, "error")

\* C30: a growth iteration of scrape_facebook_marketplace_safe that raises
\* leaves the accumulator, previous_count and the stall counter unchanged,
\* and no step of a run removes a reference from the accumulator.
C30_RaisingIterationKeepsState ==
  [][/\ growth_raised => UNCHANGED <<all_listings, previous_count, no_new_count>>
     /\ all_listings \subseteq all_listings']_vars

\* an iteration raised after one that grew and one that stalled: the
\* accumulator and both counters are the ones the stall left
C30_Witness ==
  /\ variant = "safe"
  /\ pc = "Scrolling"
  /\ scroll_log = <<"grow", "stall", "error">>
  /\ all_listings # {}
  /\ previous_count = Cardinality(all_listings)
  /\ no_new_count = 1
====
